---- MODULE Spec2Model ----
(***************************************************************************)
(* A model of the component generator: the GenerationJob entity and its    *)
(* transition methods, the ComponentGenerationService that orchestrates a  *)
(* job, the CodeValidator and the routes and preview builder that decide   *)
(* what a preview frame executes.                                          *)
(***************************************************************************)
EXTENDS Integers, Sequences, FiniteSets, TLC

VARIABLES
  now,        \* the wall clock read by `new Date()`
  job,        \* SpecJob: one GenerationJob entity, called directly
  lastCall,   \* SpecJob: the last transition call: its name, arguments, outcome and the job before it
  src,        \* SpecVal: the source code under validation, a sequence of fragment names
  tsMorphThrows, \* SpecVal: whether ts-morph's createSourceFile throws on this source
  out,        \* SpecVal: the last validator call or route request, and what it returned
  response,   \* SpecPreview, SpecStatus: the last response of a route
  pv,         \* SpecPreview: the ComponentPreview state (loading, error, previewUrl, currentBlobUrl),
              \* the file it comes from, whether it is mounted, its previewContent prop
  blobs,      \* SpecPreview: the blob URLs created so far, each with its document and whether it is revoked
  frame,      \* SpecPreview: the document the preview iframe has loaded
  frameMsg,   \* SpecPreviewLive: the last message the frame has posted to the host
  jobRepo,    \* SpecSvc: the rows of the job repository, in order of creation
  components, \* SpecSvc: the rows of the component repository, in order of creation
  tasks,      \* SpecSvc: the pending promises of the service, each at its next await
  llm,        \* SpecSvc: the calls the provider has received
  lastGen     \* SpecSvc: the last generateComponent call: its request and outcome

entityVars == <<job, lastCall>>
valVars == <<src, tsMorphThrows, out>>
previewVars == <<response, pv, blobs, frame, frameMsg>>
svcVars == <<jobRepo, components, tasks, llm, lastGen>>
vars == <<now, job, lastCall, src, tsMorphThrows, out, response, pv, blobs, frame, frameMsg,
          jobRepo, components, tasks, llm, lastGen>>

\* ------------------------------------------------------------------ bounds

\* the clock takes the values 1..MaxClock
MaxClock == 2
\* a source has at most MaxFragments fragments
MaxFragments == 2
\* the preview component creates at most MaxBlobs blob URLs
MaxBlobs == 2
\* generateComponent creates at most MaxJobs jobs
MaxJobs == 1
\* at most MaxTasks promises of the service are pending at once
MaxTasks == 2
\* retryJob is not called on a job the provider has seen MaxCalls times
MaxCalls == 2

\* ------------------------------------------------------- GenerationStatus

PENDING == "PENDING"
PROCESSING == "PROCESSING"
SUCCESS == "SUCCESS"
FAILED == "FAILED"
PARTIAL == "PARTIAL"
TIMEOUT == "TIMEOUT"
RATE_LIMITED == "RATE_LIMITED"

GenerationStatus == {PENDING, PROCESSING, SUCCESS, FAILED, PARTIAL, TIMEOUT, RATE_LIMITED}

\* absent optional fields (undefined)
None == "undefined"
\* no blob URL (null); blob URLs are numbered from 1
NoUrl == 0
\* no document
NoHtml == [by |-> "none", code |-> <<>>]
\* an optional Date: absent, or the clock reading t
NoDate == <<>>
Date(t) == <<t>>

\* the default of the constructor's maxRetries parameter
maxRetriesDefault == 2

\* results and errors handed to the transition methods
Results == {"r1", "r2"}
Errors == {"e1", "e2"}
TimeoutError == "Generation job timed out"
RateLimitError == "Rate limit exceeded"

\* ------------------------------------------------------- GenerationJob

\* new GenerationJob(id, request): the constructor's defaults
NewJob(id, request) ==
  [ id |-> id, request |-> request, status |-> PENDING, result |-> None,
    error |-> None, startedAt |-> NoDate, completedAt |-> NoDate,
    retryCount |-> 0, maxRetries |-> maxRetriesDefault, componentId |-> None ]

\* the outcome of a method call: whether it threw, and the job after it
Threw(j) == [threw |-> TRUE, job |-> j]
Ok(j) == [threw |-> FALSE, job |-> j]

start(j, t) ==
  IF j.status # PENDING THEN Threw(j)
  ELSE Ok([j EXCEPT !.status = PROCESSING, !.startedAt = Date(t)])

\* complete() that forgets the completion time
complete_noCompletedAt(j, r, t) ==
  IF j.status # PROCESSING THEN Threw(j)
  ELSE Ok([j EXCEPT !.status = SUCCESS, !.result = r])

complete(j, r, t) ==
  IF j.status # PROCESSING THEN Threw(j)
  ELSE Ok([j EXCEPT !.status = SUCCESS, !.result = r, !.completedAt = Date(t)])

\* fail() that accepts a job that has not started
fail_fromPending(j, e, t) ==
  IF j.status \notin {PENDING, PROCESSING} THEN Threw(j)
  ELSE Ok([j EXCEPT !.status = FAILED, !.error = e, !.completedAt = Date(t)])

fail(j, e, t) ==
  IF j.status # PROCESSING THEN Threw(j)
  ELSE Ok([j EXCEPT !.status = FAILED, !.error = e, !.completedAt = Date(t)])

\* partialComplete() that does not record the error
partialComplete_noError(j, r, e, t) ==
  IF j.status # PROCESSING THEN Threw(j)
  ELSE Ok([j EXCEPT !.status = PARTIAL, !.result = r, !.completedAt = Date(t)])

partialComplete(j, r, e, t) ==
  IF j.status # PROCESSING THEN Threw(j)
  ELSE Ok([j EXCEPT !.status = PARTIAL, !.result = r, !.error = e, !.completedAt = Date(t)])

timeout(j, t) ==
  IF j.status # PROCESSING THEN Threw(j)
  ELSE Ok([j EXCEPT !.status = TIMEOUT, !.error = TimeoutError, !.completedAt = Date(t)])

\* rateLimit() has no guard
rateLimit(j, t) ==
  Ok([j EXCEPT !.status = RATE_LIMITED, !.error = RateLimitError, !.completedAt = Date(t)])

\* canRetry() with an off-by-one budget test
canRetry_offByOne(j) ==
  j.retryCount <= j.maxRetries /\ (j.status = FAILED \/ j.status = TIMEOUT)

canRetry(j) ==
  j.retryCount < j.maxRetries /\ (j.status = FAILED \/ j.status = TIMEOUT)

\* retry() that leaves retryCount as it was
retry_keepsCount(j) ==
  IF ~canRetry(j) THEN Threw(j)
  ELSE Ok([j EXCEPT !.status = PENDING, !.error = None,
                    !.startedAt = NoDate, !.completedAt = NoDate])

retry(j) ==
  IF ~canRetry(j) THEN Threw(j)
  ELSE Ok([j EXCEPT !.retryCount = @ + 1, !.status = PENDING, !.error = None,
                    !.startedAt = NoDate, !.completedAt = NoDate])

isCompleted(j) == j.status \in {SUCCESS, FAILED, PARTIAL, TIMEOUT, RATE_LIMITED}

\* ------------------------------------------------------------ the clock

Tick ==
  /\ now < MaxClock
  /\ now' = now + 1

\* ---------------------------------------- SpecJob: the entity called freely

NoCall ==
  [op |-> "none", r |-> None, e |-> None, threw |-> FALSE, pre |-> NewJob("j1", "req"), at |-> 1,
   starts |-> 0]

Called(op, r, e, res) ==
  /\ job' = res.job
  /\ lastCall' = [op |-> op, r |-> r, e |-> e, threw |-> res.threw, pre |-> job, at |-> now,
                   \* how many times the job has entered PROCESSING
                   starts |-> lastCall.starts + IF op = "start" /\ ~res.threw THEN 1 ELSE 0]
  /\ UNCHANGED now

CallStart == Called("start", None, None, start(job, now))
CallComplete == \E r \in Results : Called("complete", r, None, complete(job, r, now))
CallFail == \E e \in Errors : Called("fail", None, e, fail(job, e, now))
CallPartialComplete ==
  \E r \in Results, e \in Errors :
    Called("partialComplete", r, e, partialComplete(job, r, e, now))
CallTimeout == Called("timeout", None, None, timeout(job, now))
CallRateLimit == Called("rateLimit", None, None, rateLimit(job, now))
CallRetry == Called("retry", None, None, retry(job))

JobTick == Tick /\ UNCHANGED entityVars

EntityIdle ==
  /\ job = NewJob("j1", "req")
  /\ lastCall = NoCall

ValIdle ==
  /\ src = <<>>
  /\ tsMorphThrows = FALSE
  /\ out = [op |-> "none"]

PreviewIdle ==
  /\ response = [route |-> "none"]
  /\ pv = [loading |-> FALSE, error |-> None, previewUrl |-> NoUrl, currentBlobUrl |-> NoUrl,
           host |-> "part_008", mounted |-> TRUE, previewContent |-> <<>>]
  /\ blobs = <<>>
  /\ frame = NoHtml
  /\ frameMsg = "none"

\* no pending promise
NoTask == [kind |-> "none"]

SvcIdle ==
  /\ jobRepo = <<>>
  /\ components = <<>>
  /\ tasks = [s \in 1..MaxTasks |-> NoTask]
  /\ llm = [calls |-> <<>>, prompts |-> {}]
  /\ lastGen = [op |-> "none"]

InitJob ==
  /\ now = 1
  /\ EntityIdle
  /\ ValIdle
  /\ PreviewIdle
  /\ SvcIdle

NextJob ==
  \/ CallStart /\ UNCHANGED <<valVars, previewVars, svcVars>>
  \/ CallComplete /\ UNCHANGED <<valVars, previewVars, svcVars>>
  \/ CallFail /\ UNCHANGED <<valVars, previewVars, svcVars>>
  \/ CallPartialComplete /\ UNCHANGED <<valVars, previewVars, svcVars>>
  \/ CallTimeout /\ UNCHANGED <<valVars, previewVars, svcVars>>
  \/ CallRateLimit /\ UNCHANGED <<valVars, previewVars, svcVars>>
  \/ CallRetry /\ UNCHANGED <<valVars, previewVars, svcVars>>
  \/ JobTick /\ UNCHANGED <<valVars, previewVars, svcVars>>

SpecJob == InitJob /\ [][NextJob]_vars

\* ------------------------------------------------ claims on the entity

Terminal == {SUCCESS, FAILED, PARTIAL, TIMEOUT, RATE_LIMITED}

\* C1: every legal transition yields the state of the table of section 4.1:
\* start() from PENDING gives PROCESSING with startedAt set; from PROCESSING
\* complete(r) gives SUCCESS with result r, fail(e) gives FAILED with error e,
\* partialComplete(r, e) gives PARTIAL with both, timeout() gives TIMEOUT;
\* rateLimit() from PENDING or PROCESSING gives RATE_LIMITED; every transition
\* into a terminal state sets completedAt.
C1_LegalTransitions ==
  LET c == lastCall
      p == c.pre
  IN  /\ (c.op = "start" /\ p.status = PENDING) =>
            /\ ~c.threw
            /\ job = [p EXCEPT !.status = PROCESSING, !.startedAt = Date(c.at)]
            /\ job.startedAt # NoDate
      /\ (c.op = "complete" /\ p.status = PROCESSING) =>
            /\ ~c.threw
            /\ job = [p EXCEPT !.status = SUCCESS, !.result = c.r, !.completedAt = Date(c.at)]
      /\ (c.op = "fail" /\ p.status = PROCESSING) =>
            /\ ~c.threw
            /\ job = [p EXCEPT !.status = FAILED, !.error = c.e, !.completedAt = Date(c.at)]
      /\ (c.op = "partialComplete" /\ p.status = PROCESSING) =>
            /\ ~c.threw
            /\ job = [p EXCEPT !.status = PARTIAL, !.result = c.r, !.error = c.e,
                               !.completedAt = Date(c.at)]
      /\ (c.op = "timeout" /\ p.status = PROCESSING) =>
            /\ ~c.threw
            /\ job.status = TIMEOUT
            /\ job.error # None
      /\ (c.op = "rateLimit" /\ p.status \in {PENDING, PROCESSING}) =>
            /\ ~c.threw
            /\ job.status = RATE_LIMITED
      /\ (c.op # "none" /\ ~c.threw /\ job.status \in Terminal) =>
            job.completedAt # NoDate

C1_Witness ==
  /\ lastCall.op = "partialComplete"
  /\ ~lastCall.threw
  /\ job.status = PARTIAL
  /\ job.result \in Results
  /\ job.error \in Errors

\* the states in which section 4.1 makes each guarded operation legal
LegalFrom(op, p) ==
  CASE op = "start" -> p.status = PENDING
    [] op \in {"complete", "fail", "partialComplete", "timeout"} -> p.status = PROCESSING
    [] op = "retry" -> p.status \in {FAILED, TIMEOUT} /\ p.retryCount < p.maxRetries
    [] OTHER -> TRUE

GuardedOps == {"start", "complete", "fail", "partialComplete", "timeout", "retry"}

\* C2: start, complete, fail, partialComplete, timeout and retry, invoked in a
\* state where section 4.1 makes the operation illegal, throw and leave every
\* field of the job as it was.
C2_IllegalTransitionsThrow ==
  (lastCall.op \in GuardedOps /\ ~LegalFrom(lastCall.op, lastCall.pre)) =>
      (lastCall.threw /\ job = lastCall.pre)

C2_Witness ==
  /\ lastCall.op = "fail"
  /\ lastCall.pre.status = PENDING
  /\ lastCall.threw
  /\ job.status = PENDING

\* C3: retry() succeeds iff the status is FAILED or TIMEOUT and retryCount <
\* maxRetries; a successful retry adds exactly 1 to retryCount, clears error,
\* startedAt and completedAt and sets PENDING; with retryCount = maxRetries
\* every retry() fails and changes nothing.
C3_Retry ==
  lastCall.op = "retry" =>
    LET p == lastCall.pre IN
      /\ ~lastCall.threw <=> (p.status \in {FAILED, TIMEOUT} /\ p.retryCount < p.maxRetries)
      /\ ~lastCall.threw =>
            /\ job.retryCount = p.retryCount + 1
            /\ job.status = PENDING
            /\ job.error = None /\ job.startedAt = NoDate /\ job.completedAt = NoDate
            /\ job.result = p.result
      /\ p.retryCount = p.maxRetries => (lastCall.threw /\ job = p)

C3_Witness ==
  /\ lastCall.op = "retry"
  /\ lastCall.pre.status = FAILED
  /\ lastCall.pre.retryCount = lastCall.pre.maxRetries
  /\ lastCall.threw


\* ---------------------------------------------------------------- text
\* A string is a tuple of one-character strings; a regular expression is a
\* tuple of items, each a character class with a quantifier, matched with
\* backtracking as the JavaScript engine matches it.

LowerLetters == <<"a", "b", "c", "d", "e", "f", "g", "h", "i", "j", "k", "l", "m", "n", "o", "p", "q", "r", "s", "t", "u", "v", "w", "x", "y", "z">>
UpperLetters == <<"A", "B", "C", "D", "E", "F", "G", "H", "I", "J", "K", "L", "M", "N", "O", "P", "Q", "R", "S", "T", "U", "V", "W", "X", "Y", "Z">>
Digits == {"0", "1", "2", "3", "4", "5", "6", "7", "8", "9"}
Letters == {LowerLetters[i] : i \in DOMAIN LowerLetters} \cup {UpperLetters[i] : i \in DOMAIN UpperLetters}
\* \w and \s
WordChars == Letters \cup Digits \cup {"_"}
SpaceChars == {" ", "\n", "\t"}
Quotes == {"'", "\""}


\* upper-case letters folded to lower case, as the i flag compares
UpperToLower ==
  [c \in {UpperLetters[i] : i \in DOMAIN UpperLetters} |->
      LowerLetters[CHOOSE i \in DOMAIN UpperLetters : UpperLetters[i] = c]]
Fold(c) == IF c \in DOMAIN UpperToLower THEN UpperToLower[c] ELSE c
FoldText(s) == [i \in DOMAIN s |-> Fold(s[i])]

\* regular-expression items: one character of a class, or any number of them;
\* neg is a negated class ([^...])
One(cs) == <<[cs |-> cs, neg |-> FALSE, q |-> "1"]>>
Star(cs) == <<[cs |-> cs, neg |-> FALSE, q |-> "*"]>>
Plus(cs) == One(cs) \o Star(cs)
NotStar(cs) == <<[cs |-> cs, neg |-> TRUE, q |-> "*"]>>
NotPlus(cs) == <<[cs |-> cs, neg |-> TRUE, q |-> "1"]>> \o NotStar(cs)
Lit(s) == [i \in DOMAIN s |-> [cs |-> {s[i]}, neg |-> FALSE, q |-> "1"]]
\* . matches anything but a line terminator
Dot == {"\n"}

\* a pattern: its items, the i flag, and whether its quantifier is lazy (*?)
Re(items) == [re |-> items, ci |-> FALSE, lazy |-> FALSE]
FoldItems(items) == [i \in DOMAIN items |-> [items[i] EXCEPT !.cs = {Fold(c) : c \in @}]]
ReI(items) == [re |-> FoldItems(items), ci |-> TRUE, lazy |-> FALSE]
ReLazy(items) == [re |-> items, ci |-> FALSE, lazy |-> TRUE]

\* the positions at which a match of re[k..] that starts at s[p] can end
RECURSIVE Ends(_, _, _, _)
Ends(re, k, s, p) ==
  IF k > Len(re) THEN {p}
  ELSE LET it == re[k]
           ok == p <= Len(s) /\ ((s[p] \in it.cs) # it.neg)
       IN  IF it.q = "1"
           THEN IF ok THEN Ends(re, k + 1, s, p + 1) ELSE {}
           ELSE Ends(re, k + 1, s, p) \cup (IF ok THEN Ends(re, k, s, p + 1) ELSE {})

Subject(pat, s) == IF pat.ci THEN FoldText(s) ELSE s

\* RegExp.prototype.test / String.prototype.match without the g flag, as a boolean
Test(pat, s) ==
  LET t == Subject(pat, s)
  IN  \E p \in 1..(Len(t) + 1) : Ends(pat.re, 1, t, p) # {}

\* String.prototype.includes and startsWith
Includes(s, sub) == Test(Re(Lit(sub)), s)
StartsWith(s, prefix) ==
  Len(prefix) <= Len(s) /\ SubSeq(s, 1, Len(prefix)) = prefix

SetMin(S) == CHOOSE x \in S : \A y \in S : x <= y
SetMax(S) == CHOOSE x \in S : \A y \in S : x >= y

\* String.prototype.match with the g flag: the matched substrings, leftmost
\* first, each search resuming where the last match ended
RECURSIVE MatchAllFrom(_, _, _)
MatchAllFrom(pat, s, from) ==
  LET t == Subject(pat, s)
      starts == {p \in from..(Len(t) + 1) : Ends(pat.re, 1, t, p) # {}}
  IN  IF starts = {} THEN <<>>
      ELSE LET p == SetMin(starts)
               es == Ends(pat.re, 1, t, p)
               e == IF pat.lazy THEN SetMin(es) ELSE SetMax(es)
           IN  <<SubSeq(s, p, e - 1)>> \o MatchAllFrom(pat, s, IF e = p THEN e + 1 ELSE e)
MatchAll(pat, s) == MatchAllFrom(pat, s, 1)

\* the first capture of a pattern of the shape  before ( [^'"]+ ) ['"] , where
\* `befores` are the alternatives of `before`: for each match of the whole
\* pattern (g flag, exec loop) the text between the quote that ends `before`
\* and the next quote
WholeEnds(befores, s, p) ==
  UNION {Ends(befores[a] \o NotPlus(Quotes) \o One(Quotes), 1, s, p) : a \in DOMAIN befores}

RECURSIVE QuotedCapturesFrom(_, _, _)
QuotedCapturesFrom(befores, s, from) ==
  LET starts == {p \in from..(Len(s) + 1) : WholeEnds(befores, s, p) # {}}
  IN  IF starts = {} THEN <<>>
      ELSE LET p == SetMin(starts)
               e == SetMin(WholeEnds(befores, s, p))
               \* the capture starts after the last quote before the closing one
               open == SetMax({q \in p..(e - 2) : s[q] \in Quotes})
           IN  <<SubSeq(s, open + 1, e - 2)>> \o QuotedCapturesFrom(befores, s, e)
QuotedCaptures(befores, s) == QuotedCapturesFrom(befores, s, 1)

\* Array.from(new Set(xs)): the first occurrence of each element, in order
RECURSIVE Dedupe(_)
Dedupe(xs) ==
  IF xs = <<>> THEN <<>>
  ELSE LET init == Dedupe(SubSeq(xs, 1, Len(xs) - 1))
           x == xs[Len(xs)]
       IN  IF \E i \in DOMAIN init : init[i] = x THEN init ELSE Append(init, x)

RECURSIVE Flatten(_)
Flatten(xss) == IF xss = <<>> THEN <<>> ELSE Head(xss) \o Flatten(Tail(xss))

\* ------------------------------------------------------- source inputs
\* A source is a sequence of fragments.  Its text is the concatenation of
\* the fragments' texts, on which the regular expressions run; what the
\* TypeScript parser makes of a fragment (its import declarations, the
\* nodes forEachDescendant visits, its declarations and its diagnostics) is
\* recorded with the fragment.

NoNodes == <<>>
Identifier(name) ==
  [kind |-> "Identifier", name |-> name, calleeKind |-> "", text |-> <<>>,
   arg0Kind |-> "", arg0 |-> <<>>]
\* a call whose callee is an identifier, a property access or the import keyword
CallExpression(calleeKind, name, arg0Kind, arg0) ==
  [kind |-> "CallExpression", name |-> name, calleeKind |-> calleeKind, text |-> <<>>,
   arg0Kind |-> arg0Kind, arg0 |-> arg0]
ElementAccessExpression(text) ==
  [kind |-> "ElementAccessExpression", name |-> "", calleeKind |-> "", text |-> text,
   arg0Kind |-> "", arg0 |-> <<>>]

Fragment(name, text, imports, nodes) ==
  [name |-> name, text |-> text, imports |-> imports, nodes |-> nodes,
   diagnostics |-> 0, defaultExport |-> FALSE, functions |-> <<>>, interfaces |-> <<>>]

F_benign == Fragment("benign", <<"c", "o", "n", "s", "t", " ", "a", " ", "=", " ", "1", ";", "\n">>, <<>>, <<Identifier("a")>>)
F_evalCall ==
  Fragment("evalCall", <<"e", "v", "a", "l", " ", "(", "'", "1", "'", ")", ";", "\n">>, <<>>,
           <<CallExpression("Identifier", "eval", "StringLiteral", <<"1">>), Identifier("eval")>>)
F_storageString ==
  Fragment("storageString", <<"c", "o", "n", "s", "t", " ", "k", " ", "=", " ", "'", "l", "o", "c", "a", "l", "S", "t", "o", "r", "a", "g", "e", "'", ";", "\n">>, <<>>, <<Identifier("k")>>)
F_storageUse ==
  Fragment("storageUse", <<"l", "o", "c", "a", "l", "S", "t", "o", "r", "a", "g", "e", ".", "c", "l", "e", "a", "r", "(", ")", ";", "\n">>, <<>>,
           <<CallExpression("PropertyAccessExpression", "", "", <<>>),
             Identifier("localStorage"), Identifier("clear")>>)
F_location ==
  Fragment("location", <<"w", "i", "n", "d", "o", "w", ".", "l", "o", "c", "a", "t", "i", "o", "n", " ", "=", " ", "'", "x", "'", ";", "\n">>, <<>>,
           <<Identifier("window"), Identifier("location")>>)
F_dynamicAccess ==
  Fragment("dynamicAccess", <<"w", "i", "n", "d", "o", "w", "[", "'", "o", "p", "e", "n", "'", "]", "(", ")", ";", "\n">>, <<>>,
           <<CallExpression("ElementAccessExpression", "", "", <<>>),
             ElementAccessExpression(<<"w", "i", "n", "d", "o", "w", "[", "'", "o", "p", "e", "n", "'", "]">>), Identifier("window")>>)
F_importFs ==
  Fragment("importFs", <<"i", "m", "p", "o", "r", "t", " ", "f", "s", " ", "f", "r", "o", "m", " ", "'", "f", "s", "'", ";", "\n">>, <<<<"f", "s">>>>, <<Identifier("fs")>>)
F_importReactDom ==
  Fragment("importReactDom", <<"i", "m", "p", "o", "r", "t", " ", "D", " ", "f", "r", "o", "m", " ", "'", "r", "e", "a", "c", "t", "-", "d", "o", "m", "'", ";", "\n">>, <<<<"r", "e", "a", "c", "t", "-", "d", "o", "m">>>>,
           <<Identifier("D")>>)
F_importReact ==
  Fragment("importReact", <<"i", "m", "p", "o", "r", "t", " ", "R", "e", "a", "c", "t", " ", "f", "r", "o", "m", " ", "'", "r", "e", "a", "c", "t", "'", ";", "\n">>, <<<<"r", "e", "a", "c", "t">>>>,
           <<Identifier("React")>>)
F_importMui ==
  Fragment("importMui", <<"i", "m", "p", "o", "r", "t", " ", "B", " ", "f", "r", "o", "m", " ", "'", "@", "m", "u", "i", "/", "m", "a", "t", "e", "r", "i", "a", "l", "/", "B", "u", "t", "t", "o", "n", "'", ";", "\n">>,
           <<<<"@", "m", "u", "i", "/", "m", "a", "t", "e", "r", "i", "a", "l", "/", "B", "u", "t", "t", "o", "n">>>>, <<Identifier("B")>>)
F_importRelative ==
  Fragment("importRelative", <<"i", "m", "p", "o", "r", "t", " ", "u", " ", "f", "r", "o", "m", " ", "'", ".", "/", "u", "'", ";", "\n">>, <<<<".", "/", "u">>>>, <<Identifier("u")>>)
F_dynamicImport ==
  Fragment("dynamicImport", <<"i", "m", "p", "o", "r", "t", "(", "'", "f", "s", "'", ")", ";", "\n">>, <<>>,
           <<CallExpression("ImportKeyword", "", "StringLiteral", <<"f", "s">>)>>)
F_image ==
  Fragment("image", <<"<", "i", "m", "g", " ", "s", "r", "c", "=", "'", "a", "'", "/", ">", ";", "\n">>, <<>>, <<Identifier("img"), Identifier("src")>>)
F_typeError ==
  [Fragment("typeError", <<"c", "o", "n", "s", "t", " ", "n", ":", " ", "n", "u", "m", "b", "e", "r", " ", "=", " ", "'", "a", "'", ";", "\n">>, <<>>, <<Identifier("n")>>)
     EXCEPT !.diagnostics = 1]
F_component ==
  [Fragment("component", <<"e", "x", "p", "o", "r", "t", " ", "d", "e", "f", "a", "u", "l", "t", " ", "f", "u", "n", "c", "t", "i", "o", "n", " ", "C", "a", "r", "d", "(", ")", " ", "{", "}", "\n">>, <<>>, <<Identifier("Card")>>)
     EXCEPT !.defaultExport = TRUE, !.functions = <<<<"C", "a", "r", "d">>>>]
F_propsInterface ==
  [Fragment("propsInterface", <<"i", "n", "t", "e", "r", "f", "a", "c", "e", " ", "C", "a", "r", "d", "P", "r", "o", "p", "s", " ", "{", "}", "\n">>, <<>>, <<Identifier("CardProps")>>)
     EXCEPT !.interfaces = <<<<"C", "a", "r", "d", "P", "r", "o", "p", "s">>>>]

Fragments ==
  { F_benign, F_evalCall, F_storageString, F_storageUse, F_location, F_dynamicAccess,
    F_importFs, F_importReactDom, F_importReact, F_importMui, F_importRelative,
    F_dynamicImport, F_image, F_typeError, F_component, F_propsInterface }

FragmentNames == {f.name : f \in Fragments}
Frag(name) == CHOOSE f \in Fragments : f.name = name

\* the sources: every sequence of at most MaxFragments fragments
Sources == UNION {[1..n -> FragmentNames] : n \in 0..MaxFragments}

\* the source text, and the parser's view of the whole source
CodeText(s) == Flatten([i \in DOMAIN s |-> Frag(s[i]).text])
ImportDeclarations(s) == Flatten([i \in DOMAIN s |-> Frag(s[i]).imports])
Descendants(s) == Flatten([i \in DOMAIN s |-> Frag(s[i]).nodes])
Diagnostics(s) == Flatten([i \in DOMAIN s |-> [k \in 1..Frag(s[i]).diagnostics |-> s[i]]])
Functions(s) == Flatten([i \in DOMAIN s |-> Frag(s[i]).functions])
Interfaces(s) == Flatten([i \in DOMAIN s |-> Frag(s[i]).interfaces])
HasDefaultExport(s) == \E i \in DOMAIN s : Frag(s[i]).defaultExport

\* ------------------------------------------------------- CodeValidator

allowedImports ==
  { <<"@", "m", "u", "i", "/", "m", "a", "t", "e", "r", "i", "a", "l">>, <<"@", "m", "u", "i", "/", "m", "a", "t", "e", "r", "i", "a", "l", "/">>, <<"@", "m", "u", "i", "/", "i", "c", "o", "n", "s", "-", "m", "a", "t", "e", "r", "i", "a", "l">>, <<"@", "m", "u", "i", "/", "i", "c", "o", "n", "s", "-", "m", "a", "t", "e", "r", "i", "a", "l", "/">>,
    <<"@", "m", "u", "i", "/", "x", "-", "d", "a", "t", "a", "-", "g", "r", "i", "d">>, <<"@", "m", "u", "i", "/", "x", "-", "d", "a", "t", "a", "-", "g", "r", "i", "d", "/">>, <<"r", "e", "a", "c", "t">>, <<"r", "e", "a", "c", "t", "-", "h", "o", "o", "k", "-", "f", "o", "r", "m">>, <<"r", "e", "a", "c", "t", "/">> }

forbiddenPatterns ==
  << ReI(Lit(<<"d", "a", "n", "g", "e", "r", "o", "u", "s", "l", "y", "S", "e", "t", "I", "n", "n", "e", "r", "H", "T", "M", "L">>)),
     ReI(Lit(<<"i", "n", "n", "e", "r", "H", "T", "M", "L">>)),
     ReI(Lit(<<"o", "u", "t", "e", "r", "H", "T", "M", "L">>)),
     ReI(Lit(<<"d", "o", "c", "u", "m", "e", "n", "t", ".", "c", "o", "o", "k", "i", "e">>)),
     ReI(Lit(<<"w", "i", "n", "d", "o", "w", ".", "l", "o", "c", "a", "t", "i", "o", "n">>)),
     ReI(Lit(<<"w", "i", "n", "d", "o", "w", ".", "o", "p", "e", "n">>)),
     ReI(Lit(<<"e", "v", "a", "l">>) \o Star(SpaceChars) \o Lit(<<"(">>)),
     ReI(Lit(<<"n", "e", "w">>) \o Plus(SpaceChars) \o Lit(<<"F", "u", "n", "c", "t", "i", "o", "n">>)),
     ReI(Lit(<<"s", "e", "t", "T", "i", "m", "e", "o", "u", "t">>) \o Star(SpaceChars) \o Lit(<<"(">>)),
     ReI(Lit(<<"s", "e", "t", "I", "n", "t", "e", "r", "v", "a", "l">>) \o Star(SpaceChars) \o Lit(<<"(">>)),
     ReI(Lit(<<"f", "e", "t", "c", "h">>) \o Star(SpaceChars) \o Lit(<<"(">>)),
     ReI(Lit(<<"X", "M", "L", "H", "t", "t", "p", "R", "e", "q", "u", "e", "s", "t">>)),
     ReI(Lit(<<"W", "e", "b", "S", "o", "c", "k", "e", "t">>)),
     ReI(Lit(<<"<", "s", "c", "r", "i", "p", "t">>) \o NotStar({">"}) \o Lit(<<">">>)),
     ReI(Lit(<<"j", "a", "v", "a", "s", "c", "r", "i", "p", "t", ":">>)),
     ReI(Lit(<<"o", "n">>) \o Plus(WordChars) \o Star(SpaceChars) \o Lit(<<"=">>)) >>

forbiddenIdentifiers ==
  { "eval", "Function", "setTimeout", "setInterval", "fetch", "XMLHttpRequest",
    "WebSocket", "postMessage", "localStorage", "sessionStorage", "indexedDB" }

isAllowedImport(moduleSpecifier) ==
  \/ StartsWith(moduleSpecifier, <<".", "/">>)
  \/ StartsWith(moduleSpecifier, <<".", ".", "/">>)
  \/ \E allowed \in allowedImports :
        \/ moduleSpecifier = allowed
        \/ StartsWith(moduleSpecifier, allowed)

\* validateTypeScript: one error per diagnostic; the catch reports one error
validateTypeScript(code, parseThrows) ==
  LET errors == IF parseThrows THEN <<"TypeScript validation failed">> ELSE Diagnostics(code)
  IN  [isValid |-> Len(errors) = 0, errors |-> errors]

Violation(type, severity) == [type |-> type, severity |-> severity]

\* the callback validateSafety hands to forEachDescendant
NodeViolations(node) ==
     (IF node.kind = "Identifier" /\ node.name \in forbiddenIdentifiers
      THEN <<Violation("forbidden-identifier", "error")>> ELSE <<>>)
  \o (IF /\ node.kind = "ElementAccessExpression"
         /\ (Includes(node.text, <<"w", "i", "n", "d", "o", "w", "[">>) \/ Includes(node.text, <<"d", "o", "c", "u", "m", "e", "n", "t", "[">>))
      THEN <<Violation("dynamic-access", "warning")>> ELSE <<>>)
  \o (IF /\ node.kind = "CallExpression"
         /\ node.calleeKind = "Identifier"
         /\ node.name \in {"eval", "Function"}
      THEN <<Violation("eval-construct", "error")>> ELSE <<>>)

validateSafety(code, parseThrows) ==
  LET text == CodeText(code)
      textual ==
        Flatten([i \in DOMAIN forbiddenPatterns |->
                   IF Test(forbiddenPatterns[i], text)
                   THEN <<Violation("forbidden-pattern", "error")>> ELSE <<>>])
      nodes == Descendants(code)
      tree ==
        IF parseThrows THEN <<Violation("ast-analysis-error", "warning")>>
        ELSE Flatten([i \in DOMAIN nodes |-> NodeViolations(nodes[i])])
      violations == textual \o tree
  IN  [ isValid |-> {i \in DOMAIN violations : violations[i].severity = "error"} = {},
        violations |-> violations ]

\* the regular expression of the fallback:
\*   /import\s+(?:[\w\s{},*]+\s+from\s+)?['"]([^'"]+)['"]/g
importRegexBefore ==
  << Lit(<<"i", "m", "p", "o", "r", "t">>) \o Plus(SpaceChars) \o One(Quotes),
     Lit(<<"i", "m", "p", "o", "r", "t">>) \o Plus(SpaceChars) \o Plus(WordChars \cup SpaceChars \cup {"{", "}", ",", "*"})
        \o Plus(SpaceChars) \o Lit(<<"f", "r", "o", "m">>) \o Plus(SpaceChars) \o One(Quotes) >>

validateImports(code, parseThrows) ==
  LET decls == ImportDeclarations(code)
      nodes == Descendants(code)
      static == SelectSeq(decls, LAMBDA m : ~isAllowedImport(m))
      dynamic ==
        Flatten([i \in DOMAIN nodes |->
                   IF /\ nodes[i].kind = "CallExpression"
                      /\ nodes[i].calleeKind = "ImportKeyword"
                      /\ nodes[i].arg0Kind = "StringLiteral"
                      /\ ~isAllowedImport(nodes[i].arg0)
                   THEN <<nodes[i].arg0>> ELSE <<>>])
      fallback ==
        SelectSeq(QuotedCaptures(importRegexBefore, CodeText(code)),
                  LAMBDA m : ~isAllowedImport(m))
      forbiddenImports == IF parseThrows THEN fallback ELSE static \o dynamic
  IN  [ isValid |-> Len(forbiddenImports) = 0,
        forbiddenImports |-> Dedupe(forbiddenImports) ]

IsUpper(c) == \E i \in DOMAIN UpperLetters : UpperLetters[i] = c

\* validateReactComponent; only function declarations are components in the
\* sources of this model
validateReactComponent(code, parseThrows) ==
  LET hasReactImport == \E i \in DOMAIN ImportDeclarations(code) : ImportDeclarations(code)[i] = <<"r", "e", "a", "c", "t">>
      named == SelectSeq(Functions(code), LAMBDA n : Len(n) > 0 /\ IsUpper(n[1]))
      hasComponentFunction == Len(named) > 0
      componentName == IF hasComponentFunction THEN named[1] ELSE <<>>
      hasPropsInterface ==
        \E i \in DOMAIN Interfaces(code) :
            \/ Includes(Interfaces(code)[i], <<"P", "r", "o", "p", "s">>)
            \/ Includes(Interfaces(code)[i], componentName)
      issues ==
        IF parseThrows THEN <<"React component validation failed">>
        ELSE    (IF ~hasReactImport THEN <<"Missing React import">> ELSE <<>>)
             \o (IF ~HasDefaultExport(code) THEN <<"Missing default export">> ELSE <<>>)
             \o (IF ~hasComponentFunction THEN <<"No React component function found">> ELSE <<>>)
             \o (IF ~hasPropsInterface /\ componentName # <<>>
                 THEN <<"Missing props interface">> ELSE <<>>)
  IN  [isValid |-> Len(issues) = 0, issues |-> issues]

accessibilityPatterns ==
  << [ pattern |-> ReI(Lit(<<"<", "b", "u", "t", "t", "o", "n">>) \o NotStar({">"}) \o Lit(<<">">>)),
       lacks |-> {<<"a", "r", "i", "a", "-", "l", "a", "b", "e", "l">>, <<"a", "r", "i", "a", "-", "l", "a", "b", "e", "l", "l", "e", "d", "b", "y">>},
       message |-> "Button elements should have aria-label or aria-labelledby" ],
     [ pattern |-> ReI(Lit(<<"<", "i", "n", "p", "u", "t">>) \o NotStar({">"}) \o Lit(<<">">>)),
       lacks |-> {<<"a", "r", "i", "a", "-", "l", "a", "b", "e", "l">>, <<"a", "r", "i", "a", "-", "l", "a", "b", "e", "l", "l", "e", "d", "b", "y">>},
       message |-> "Input elements should have aria-label or aria-labelledby" ],
     [ pattern |-> ReI(Lit(<<"<", "i", "m", "g">>) \o NotStar({">"}) \o Lit(<<">">>)),
       lacks |-> {<<"a", "l", "t", "=">>},
       message |-> "Image elements should have alt attributes" ] >>

validateAccessibility(code) ==
  LET text == CodeText(code)
      WarningsOf(ap) ==
        LET matches == MatchAll(ap.pattern, text)
        IN  Flatten([i \in DOMAIN matches |->
                       IF \A a \in ap.lacks : ~Includes(matches[i], a)
                       THEN <<ap.message>> ELSE <<>>])
  IN  [ isValid |-> TRUE,
        warnings |-> Flatten([k \in DOMAIN accessibilityPatterns |->
                                 WarningsOf(accessibilityPatterns[k])]) ]


\* ------------------------------------------- POST /api/validate (route)

\* the options of a ValidateRequest: absent, or the flags with zod's defaults
\* filled in (the typescript flag is parsed and never read)
NoOptions == <<>>
ValidateOptions == {NoOptions} \cup [security : BOOLEAN, accessibility : BOOLEAN]

Finding(type, severity) == [type |-> type, severity |-> severity]

\* the route running validateSafety only when options.security is true
ValidatePOST_scanOptIn(bodyParses, code, options, parseThrows) ==
  IF ~bodyParses
  THEN [status |-> 400, success |-> FALSE, code |-> "VALIDATION_ERROR"]
  ELSE
    LET securityOn == IF DOMAIN options = {} THEN FALSE ELSE options.security = TRUE
        accessibilityOn == IF DOMAIN options = {} THEN TRUE ELSE options.accessibility # FALSE
        tsValidation == validateTypeScript(code, parseThrows)
        safetyValidation ==
          IF securityOn THEN validateSafety(code, parseThrows)
          ELSE [isValid |-> TRUE, violations |-> <<>>]
        importsValidation == validateImports(code, parseThrows)
        reactValidation == validateReactComponent(code, parseThrows)
        accessibilityValidation ==
          IF accessibilityOn THEN validateAccessibility(code)
          ELSE [isValid |-> TRUE, warnings |-> <<>>]
        errors ==
             (IF ~tsValidation.isValid
              THEN [i \in DOMAIN tsValidation.errors |-> Finding("syntax", "error")]
              ELSE <<>>)
          \o (IF ~safetyValidation.isValid
              THEN [i \in DOMAIN safetyValidation.violations |->
                      Finding("security", safetyValidation.violations[i].severity)]
              ELSE <<>>)
          \o (IF ~importsValidation.isValid THEN <<Finding("import", "error")>> ELSE <<>>)
          \o (IF ~reactValidation.isValid
              THEN [i \in DOMAIN reactValidation.issues |-> Finding("type", "error")]
              ELSE <<>>)
        warnings ==
          [i \in DOMAIN accessibilityValidation.warnings |-> [type |-> "accessibility"]]
        isValid == {i \in DOMAIN errors : errors[i].severity = "error"} = {}
    IN  [ status |-> 200, success |-> TRUE, isValid |-> isValid,
          errors |-> errors, warnings |-> warnings,
          checks |-> [ts |-> tsValidation, safety |-> safetyValidation,
                      imports |-> importsValidation, react |-> reactValidation,
                      accessibility |-> accessibilityValidation] ]

\* POST /api/validate: the five checks and the combined outcome
ValidatePOST(bodyParses, code, options, parseThrows) ==
  IF ~bodyParses
  THEN [status |-> 400, success |-> FALSE, code |-> "VALIDATION_ERROR"]
  ELSE
    LET securityOn == IF DOMAIN options = {} THEN TRUE ELSE options.security # FALSE
        accessibilityOn == IF DOMAIN options = {} THEN TRUE ELSE options.accessibility # FALSE
        tsValidation == validateTypeScript(code, parseThrows)
        safetyValidation ==
          IF securityOn THEN validateSafety(code, parseThrows)
          ELSE [isValid |-> TRUE, violations |-> <<>>]
        importsValidation == validateImports(code, parseThrows)
        reactValidation == validateReactComponent(code, parseThrows)
        accessibilityValidation ==
          IF accessibilityOn THEN validateAccessibility(code)
          ELSE [isValid |-> TRUE, warnings |-> <<>>]
        errors ==
             (IF ~tsValidation.isValid
              THEN [i \in DOMAIN tsValidation.errors |-> Finding("syntax", "error")]
              ELSE <<>>)
          \o (IF ~safetyValidation.isValid
              THEN [i \in DOMAIN safetyValidation.violations |->
                      Finding("security", safetyValidation.violations[i].severity)]
              ELSE <<>>)
          \o (IF ~importsValidation.isValid THEN <<Finding("import", "error")>> ELSE <<>>)
          \o (IF ~reactValidation.isValid
              THEN [i \in DOMAIN reactValidation.issues |-> Finding("type", "error")]
              ELSE <<>>)
        warnings ==
          [i \in DOMAIN accessibilityValidation.warnings |-> [type |-> "accessibility"]]
        isValid == {i \in DOMAIN errors : errors[i].severity = "error"} = {}
    IN  [ status |-> 200, success |-> TRUE, isValid |-> isValid,
          errors |-> errors, warnings |-> warnings,
          checks |-> [ts |-> tsValidation, safety |-> safetyValidation,
                      imports |-> importsValidation, react |-> reactValidation,
                      accessibility |-> accessibilityValidation] ]

\* ---------------------------- SpecVal: the validator applied to a source

NoOutput == [op |-> "none"]

ApplyValidateTypeScript ==
  /\ out' = [op |-> "validateTypeScript", result |-> validateTypeScript(src, tsMorphThrows)]
  /\ UNCHANGED <<src, tsMorphThrows>>

ApplyValidateSafety ==
  /\ out' = [op |-> "validateSafety", result |-> validateSafety(src, tsMorphThrows)]
  /\ UNCHANGED <<src, tsMorphThrows>>

ApplyValidateImports ==
  /\ out' = [op |-> "validateImports", result |-> validateImports(src, tsMorphThrows)]
  /\ UNCHANGED <<src, tsMorphThrows>>

ApplyValidateReactComponent ==
  /\ out' = [op |-> "validateReactComponent", result |-> validateReactComponent(src, tsMorphThrows)]
  /\ UNCHANGED <<src, tsMorphThrows>>

ApplyValidateAccessibility ==
  /\ out' = [op |-> "validateAccessibility", result |-> validateAccessibility(src)]
  /\ UNCHANGED <<src, tsMorphThrows>>

RouteValidate ==
  \E bodyParses \in BOOLEAN, options \in ValidateOptions :
    /\ out' = [op |-> "POST /api/validate", options |-> options,
               result |-> ValidatePOST(bodyParses, src, options, tsMorphThrows)]
    /\ UNCHANGED <<src, tsMorphThrows>>

InitVal ==
  /\ src \in Sources
  /\ tsMorphThrows \in BOOLEAN
  /\ out = NoOutput
  /\ now = 1
  /\ EntityIdle
  /\ PreviewIdle
  /\ SvcIdle

NextVal ==
  \/ ApplyValidateTypeScript /\ UNCHANGED <<now, entityVars, previewVars, svcVars>>
  \/ ApplyValidateSafety /\ UNCHANGED <<now, entityVars, previewVars, svcVars>>
  \/ ApplyValidateImports /\ UNCHANGED <<now, entityVars, previewVars, svcVars>>
  \/ ApplyValidateReactComponent /\ UNCHANGED <<now, entityVars, previewVars, svcVars>>
  \/ ApplyValidateAccessibility /\ UNCHANGED <<now, entityVars, previewVars, svcVars>>
  \/ RouteValidate /\ UNCHANGED <<now, entityVars, previewVars, svcVars>>

SpecVal == InitVal /\ [][NextVal]_vars


\* ------------------------------------------- POST /api/compile (route)

DANGEROUS_PATTERNS ==
  << ReI(Lit(<<"d", "a", "n", "g", "e", "r", "o", "u", "s", "l", "y", "S", "e", "t", "I", "n", "n", "e", "r", "H", "T", "M", "L">>)),
     Re(Lit(<<"w", "i", "n", "d", "o", "w", ".">>)),
     Re(Lit(<<"d", "o", "c", "u", "m", "e", "n", "t", ".">>)),
     Re(Lit(<<"e", "v", "a", "l">>) \o Star(SpaceChars) \o Lit(<<"(">>)),
     Re(Lit(<<"n", "e", "w">>) \o Plus(SpaceChars) \o Lit(<<"F", "u", "n", "c", "t", "i", "o", "n">>)),
     Re(Lit(<<".", "c", "o", "o", "k", "i", "e">>)),
     Re(Lit(<<"f", "e", "t", "c", "h">>) \o Star(SpaceChars) \o Lit(<<"(">>)),
     Re(Lit(<<"X", "M", "L", "H", "t", "t", "p", "R", "e", "q", "u", "e", "s", "t">>)),
     Re(Lit(<<"l", "o", "c", "a", "l", "S", "t", "o", "r", "a", "g", "e">>)),
     Re(Lit(<<"s", "e", "s", "s", "i", "o", "n", "S", "t", "o", "r", "a", "g", "e">>)),
     Re(Lit(<<"i", "n", "d", "e", "x", "e", "d", "D", "B">>)),
     Re(Lit(<<"w", "e", "b", "k", "i", "t", "I", "n", "d", "e", "x", "e", "d", "D", "B">>)),
     Re(Lit(<<"m", "o", "z", "I", "n", "d", "e", "x", "e", "d", "D", "B">>)),
     Re(Lit(<<"m", "s", "I", "n", "d", "e", "x", "e", "d", "D", "B">>)),
     Re(Lit(<<"i", "m", "p", "o", "r", "t">>) \o Plus(SpaceChars) \o NotStar(Dot) \o Lit(<<"f", "r", "o", "m">>) \o Plus(SpaceChars)
          \o One(Quotes) \o Lit(<<"h", "t", "t", "p">>)),
     Re(Lit(<<"r", "e", "q", "u", "i", "r", "e">>) \o Star(SpaceChars) \o Lit(<<"(">>) \o Star(SpaceChars)
          \o One(Quotes) \o Lit(<<"h", "t", "t", "p">>)),
     Re(Lit(<<"_", "_", "d", "i", "r", "n", "a", "m", "e">>)),
     Re(Lit(<<"_", "_", "f", "i", "l", "e", "n", "a", "m", "e">>)),
     Re(Lit(<<"p", "r", "o", "c", "e", "s", "s", ".">>)),
     Re(Lit(<<"g", "l", "o", "b", "a", "l", ".">>)),
     Re(Lit(<<"B", "u", "f", "f", "e", "r">>)),
     Re(Lit(<<"r", "e", "q", "u", "i", "r", "e">>) \o Star(SpaceChars) \o Lit(<<"(">>)) >>

ALLOWED_IMPORTS ==
  { <<"r", "e", "a", "c", "t">>, <<"@", "m", "u", "i", "/", "m", "a", "t", "e", "r", "i", "a", "l">>, <<"@", "m", "u", "i", "/", "i", "c", "o", "n", "s", "-", "m", "a", "t", "e", "r", "i", "a", "l">>, <<"@", "m", "u", "i", "/", "x", "-", "d", "a", "t", "a", "-", "g", "r", "i", "d">>,
    <<"@", "e", "m", "o", "t", "i", "o", "n", "/", "r", "e", "a", "c", "t">>, <<"@", "e", "m", "o", "t", "i", "o", "n", "/", "s", "t", "y", "l", "e", "d">> }

\*  /import\s+.*?from\s+['"]([^'"]+)['"]/g
importStatementPattern ==
  ReLazy(Lit(<<"i", "m", "p", "o", "r", "t">>) \o Plus(SpaceChars) \o NotStar(Dot) \o Lit(<<"f", "r", "o", "m">>) \o Plus(SpaceChars)
           \o One(Quotes) \o NotPlus(Quotes) \o One(Quotes))

performSafetyChecks(text) ==
  LET dangerous ==
        Flatten([i \in DOMAIN DANGEROUS_PATTERNS |->
                   IF Test(DANGEROUS_PATTERNS[i], text)
                   THEN <<"Dangerous pattern detected">> ELSE <<>>])
      importMatches == MatchAll(importStatementPattern, text)
      \*  importMatch.match(/from\s+['"]([^'"]+)['"]/)
      ModuleOf(importMatch) ==
        QuotedCaptures(<<Lit(<<"f", "r", "o", "m">>) \o Plus(SpaceChars) \o One(Quotes)>>, importMatch)
      Disallowed(moduleName) ==
        /\ ~\E allowed \in ALLOWED_IMPORTS :
              moduleName = allowed \/ StartsWith(moduleName, allowed \o <<"/">>)
        /\ ~StartsWith(moduleName, <<".", "/">>)
        /\ ~StartsWith(moduleName, <<".", ".", "/">>)
      imports ==
        Flatten([i \in DOMAIN importMatches |->
                   IF /\ ModuleOf(importMatches[i]) # <<>>
                      /\ Disallowed(ModuleOf(importMatches[i])[1])
                   THEN <<"Disallowed import">> ELSE <<>>])
      violations == dangerous \o imports
  IN  [safe |-> Len(violations) = 0, violations |-> violations]

\* an executable preview document: which builder made it and the source it runs
Html(by, code) == [by |-> by, code |-> code]

\* the compile route: the code is required, the safety checks run, and only
\* then the document is generated
CompilePOST(code) ==
  IF code = <<>>
  THEN [status |-> 400, success |-> FALSE, html |-> NoHtml]
  ELSE IF ~performSafetyChecks(CodeText(code)).safe
       THEN [status |-> 400, success |-> FALSE, html |-> NoHtml]
       ELSE [status |-> 200, success |-> TRUE, html |-> Html("compile", code)]

\* ------------------------------------------- POST /api/preview (route)

\* the preview route: the body is parsed and the document that executes the
\* code with new Function is returned as a data URL
PreviewPOST(bodyParses, code) ==
  IF ~bodyParses
  THEN [status |-> 400, success |-> FALSE, html |-> NoHtml]
  ELSE [status |-> 200, success |-> TRUE, html |-> Html("preview", code)]

\* ------------------------------------- ComponentPreview (client builder)

\* code.trim() is empty
IsBlank(text) == \A i \in DOMAIN text : text[i] \in SpaceChars

createPreviewHTML(componentCode) == Html("createPreviewHTML", componentCode)

\* generatePreview: on mount, when the code changes and on refresh
\* generatePreview() that leaves the previous blob URL alone
generatePreviewFor_noRevoke(code) ==
  IF IsBlank(CodeText(code))
  THEN /\ pv' = [pv EXCEPT !.error = "No code to preview"]
       /\ UNCHANGED <<blobs, frame, frameMsg>>
  ELSE /\ Len(blobs) < MaxBlobs
       /\ LET blobUrl == Len(blobs) + 1
          IN  /\ blobs' = Append(blobs, [html |-> createPreviewHTML(code), revoked |-> FALSE])
              /\ pv' = [pv EXCEPT !.loading = TRUE, !.error = None,
                                  !.currentBlobUrl = blobUrl, !.previewUrl = blobUrl]
       /\ frameMsg' = "none"
       /\ UNCHANGED frame

\* generatePreview() of part_008 with the code prop it closes over
generatePreviewFor(code) ==
  IF IsBlank(CodeText(code))
  THEN /\ pv' = [pv EXCEPT !.error = "No code to preview"]
       /\ UNCHANGED <<blobs, frame, frameMsg>>
  ELSE /\ Len(blobs) < MaxBlobs
       /\ LET revoked ==
                IF pv.currentBlobUrl # NoUrl
                THEN [blobs EXCEPT ![pv.currentBlobUrl].revoked = TRUE]
                ELSE blobs
              blobUrl == Len(blobs) + 1
          IN  /\ blobs' = Append(revoked, [html |-> createPreviewHTML(code), revoked |-> FALSE])
              /\ pv' = [pv EXCEPT !.loading = TRUE, !.error = None,
                                  !.currentBlobUrl = blobUrl, !.previewUrl = blobUrl]
       /\ frameMsg' = "none"
       /\ UNCHANGED frame

GeneratePreview == generatePreviewFor(src)

\* the iframe loads the blob of previewUrl and runs it; onLoad clears loading
IframeLoad ==
  /\ pv.error = None
  /\ pv.previewUrl # NoUrl
  /\ ~blobs[pv.previewUrl].revoked
  /\ frame # blobs[pv.previewUrl].html
  /\ frame' = blobs[pv.previewUrl].html
  /\ pv' = [pv EXCEPT !.loading = FALSE]
  /\ UNCHANGED <<blobs, frameMsg>>

\* ------------------ SpecPreview: the paths that build a preview document

RouteCompile ==
  /\ response' = [route |-> "POST /api/compile", body |-> CompilePOST(src)]
  /\ UNCHANGED <<pv, blobs, frame, frameMsg>>

RoutePreview ==
  \E bodyParses \in BOOLEAN :
    /\ response' = [route |-> "POST /api/preview", body |-> PreviewPOST(bodyParses, src)]
    /\ UNCHANGED <<pv, blobs, frame, frameMsg>>

InitPreview ==
  /\ src \in Sources
  /\ tsMorphThrows = FALSE
  /\ out = NoOutput
  /\ now = 1
  /\ EntityIdle
  /\ PreviewIdle
  /\ SvcIdle

NextPreview ==
  \/ RouteCompile /\ UNCHANGED <<now, entityVars, valVars, svcVars>>
  \/ RoutePreview /\ UNCHANGED <<now, entityVars, valVars, svcVars>>
  \/ GeneratePreview /\ UNCHANGED <<now, entityVars, valVars, svcVars, response>>
  \/ IframeLoad /\ UNCHANGED <<now, entityVars, valVars, svcVars, response>>

SpecPreview == InitPreview /\ [][NextPreview]_vars


\* ------------------------------ claims on the validator and the previews

\* the documents that exist: the route's response, the blobs of the preview
\* component and what its frame has loaded
Documents ==
     (IF response.route # "none" /\ response.body.success THEN {response.body.html} ELSE {})
  \cup {blobs[u].html : u \in DOMAIN blobs}
  \cup (IF frame.by # "none" THEN {frame} ELSE {})

\* the security/import check reports a violation on the code: the route's
\* performSafetyChecks and the validator's safety or import check both do
CheckReportsViolation(code) ==
  /\ ~performSafetyChecks(CodeText(code)).safe
  /\ \/ ~validateSafety(code, FALSE).isValid
     \/ ~validateImports(code, FALSE).isValid

\* C6: on every path that builds an executable preview document from
\* generated source (compile route, preview route, client-side builder) the
\* security/import check runs first, and no document is produced or loaded
\* into the frame when the check reports a violation.
C6_PreviewGatedByCheck ==
  \A d \in Documents : ~CheckReportsViolation(d.code)

\* the same, of the compile route alone
CompileRouteGated ==
  (response.route = "POST /api/compile" /\ response.body.success) =>
      performSafetyChecks(CodeText(response.body.html.code)).safe

\* the textual patterns the claim names: the validator's list and the storage APIs
ContainsForbiddenText(text) ==
  \/ \E i \in DOMAIN forbiddenPatterns : Test(forbiddenPatterns[i], text)
  \/ Includes(text, <<"l", "o", "c", "a", "l", "S", "t", "o", "r", "a", "g", "e">>)
  \/ Includes(text, <<"s", "e", "s", "s", "i", "o", "n", "S", "t", "o", "r", "a", "g", "e">>)

HasErrorViolation(result) ==
  \E i \in DOMAIN result.violations : result.violations[i].severity = "error"

\* C7: for every source that contains a match of a forbidden textual pattern
\* (eval(, document.cookie, window.location, innerHTML, setTimeout(, fetch(,
\* localStorage, <script, javascript:, ...) validateSafety returns isValid =
\* false with at least one error-severity violation, whether the syntax-tree
\* pass succeeds or throws.
C7_ForbiddenTextRejected ==
  (out.op = "validateSafety" /\ ContainsForbiddenText(CodeText(src))) =>
      (~out.result.isValid /\ HasErrorViolation(out.result))

\* the same, of the patterns of forbiddenPatterns alone
ListedPatternsRejected ==
  (out.op = "validateSafety" /\ \E i \in DOMAIN forbiddenPatterns :
                                    Test(forbiddenPatterns[i], CodeText(src))) =>
      (~out.result.isValid /\ HasErrorViolation(out.result))

\* the packages of the allow-list
AllowedPackages ==
  {<<"@", "m", "u", "i", "/", "m", "a", "t", "e", "r", "i", "a", "l">>, <<"@", "m", "u", "i", "/", "i", "c", "o", "n", "s", "-", "m", "a", "t", "e", "r", "i", "a", "l">>, <<"@", "m", "u", "i", "/", "x", "-", "d", "a", "t", "a", "-", "g", "r", "i", "d">>, <<"r", "e", "a", "c", "t">>, <<"r", "e", "a", "c", "t", "-", "h", "o", "o", "k", "-", "f", "o", "r", "m">>}

\* relative, an allowed package, or a subpath of one
OnAllowListOrRelative(specifier) ==
  \/ StartsWith(specifier, <<".", "/">>)
  \/ StartsWith(specifier, <<".", ".", "/">>)
  \/ \E pkg \in AllowedPackages :
        specifier = pkg \/ StartsWith(specifier, pkg \o <<"/">>)

\* the specifiers of the static imports and of the dynamic imports with a
\* string-literal argument
ImportedSpecifiers(code) ==
  LET decls == ImportDeclarations(code)
      nodes == Descendants(code)
  IN  {decls[i] : i \in DOMAIN decls}
      \cup {nodes[i].arg0 : i \in {k \in DOMAIN nodes :
                                      /\ nodes[k].kind = "CallExpression"
                                      /\ nodes[k].calleeKind = "ImportKeyword"
                                      /\ nodes[k].arg0Kind = "StringLiteral"}}

\* C8: for every source with a static import, or a dynamic import with a
\* string-literal argument, whose specifier is neither relative nor on the
\* allow-list (an allowed package or a subpath of it), validateImports
\* returns isValid = false and names that specifier in forbiddenImports.
C8_ForbiddenImportsNamed ==
  out.op = "validateImports" =>
    \A m \in ImportedSpecifiers(src) :
      ~OnAllowListOrRelative(m) =>
          /\ ~out.result.isValid
          /\ \E i \in DOMAIN out.result.forbiddenImports : out.result.forbiddenImports[i] = m

\* C9: the combined outcome's isValid is true iff no error-severity finding
\* comes from the security or import checks; type/syntax, structural and
\* accessibility findings are surfaced and never make isValid false.
C9_OnlySecurityAndImportsGate ==
  (out.op = "POST /api/validate" /\ out.result.status = 200) =>
      (out.result.isValid <=>
          ~\E i \in DOMAIN out.result.errors :
              /\ out.result.errors[i].type \in {"security", "import"}
              /\ out.result.errors[i].severity = "error")


\* ------------------------------------------- requests and the constructor

\* the prompt length validateRequest accepts
MaxPromptLength == 2000
\* the code length the Component constructor accepts
MaxCodeLength == 50000
\* generateUniqueName gives up when its counter reaches this
MaxNameCounter == 100

Repeat(c, n) == [i \in 1..n |-> c]

\* String.prototype.trim
Trim(s) ==
  IF \A i \in DOMAIN s : s[i] \in SpaceChars THEN <<>>
  ELSE LET first == CHOOSE i \in DOMAIN s :
                      s[i] \notin SpaceChars /\ \A j \in 1..(i - 1) : s[j] \in SpaceChars
           last == CHOOSE i \in DOMAIN s :
                      s[i] \notin SpaceChars /\ \A j \in (i + 1)..Len(s) : s[j] \in SpaceChars
       IN  SubSeq(s, first, last)

\* the prompts of the requests: absent, or a text
NoPrompt == [present |-> FALSE, text |-> <<>>]
PromptText(text) == [present |-> TRUE, text |-> text]
Prompts ==
  [ absent    |-> NoPrompt,
    empty     |-> PromptText(<<>>),
    blank     |-> PromptText(<<" ", " ", "\n">>),
    short     |-> PromptText(<<"a", " ", "c", "a", "r", "d">>),
    max       |-> PromptText(Repeat("a", MaxPromptLength)),
    over      |-> PromptText(Repeat("a", MaxPromptLength + 1)),
    blankOver |-> PromptText(Repeat(" ", MaxPromptLength + 1)) ]

\* an object is the set of its <<key, value>> pairs; an absent (undefined)
\* object-valued field is NoObject
NoObject == {<<"undefined">>}
DarkContext == {<<"theme", "dark">>, <<"accessibility", "false">>}
SimpleOptions == {<<"maxComplexity", "simple">>}

\* JSON.stringify and JSON.parse on objects
stringify(object) == [json |-> object]
parse(text) == text.json

\* a GenerationRequest: its prompt, by name, its preferred type, its context
\* flags and its options
Requests ==
  {[prompt |-> p, preferredType |-> "MUICard",
    context |-> IF p = "max" THEN DarkContext ELSE NoObject,
    options |-> IF p = "max" THEN SimpleOptions ELSE NoObject] : p \in DOMAIN Prompts}
    \cup {[prompt |-> "short", preferredType |-> None, context |-> NoObject, options |-> NoObject]}

\* validateRequest with the length test left out
validateRequest_noLengthCheck(request) ==
  LET prompt == Prompts[request.prompt]
  IN  ~prompt.present \/ prompt.text = <<>> \/ Len(Trim(prompt.text)) = 0

\* validateRequest(request): whether it throws
validateRequest(request) ==
  LET prompt == Prompts[request.prompt]
  IN  \/ ~prompt.present \/ prompt.text = <<>> \/ Len(Trim(prompt.text)) = 0
      \/ Len(prompt.text) > MaxPromptLength

\* no job: what a throwing constructor leaves
NoJob == [id |-> "none"]

\* the prompts validateRequest throws on
RejectedPrompts ==
  {p \in DOMAIN Prompts : validateRequest([prompt |-> p, preferredType |-> None])}

\* new GenerationJob(id, request)
constructor(id, request) ==
  IF request.prompt \in RejectedPrompts THEN Threw(NoJob) ELSE Ok(NewJob(id, request))

\* uuidv4(): the n-th identifier drawn
uuidv4(prefix, n) == prefix \o ToString(n)

\* -------------------------------------------------- the job repository

\* a nullable DateTime column: NULL, or a Date
NullDate == <<0, 0>>

\* the data of jobRepository.create; a column whose value is undefined is
\* left out of the insert and is NULL
create(j) ==
  [ id |-> j.id, prompt |-> j.request.prompt,
    componentType |-> IF j.request.preferredType # None THEN j.request.preferredType
                      ELSE "MUIButton",
    requirements |-> stringify({}),
    options |-> stringify(IF j.request.options # NoObject THEN j.request.options ELSE {}),
    status |-> j.status,
    startedAt |-> IF j.startedAt = NoDate THEN NullDate ELSE j.startedAt,
    completedAt |-> IF j.completedAt = NoDate THEN NullDate ELSE j.completedAt,
    result |-> j.result, error |-> j.error, retryCount |-> j.retryCount,
    componentId |-> j.componentId ]

\* the row jobRepository.update leaves: status, result, error, retryCount are
\* written; startedAt and completedAt are written when the job holds a Date
\* or null, and a column whose value in data is undefined keeps what it had
update(record, j) ==
  [record EXCEPT !.status = j.status,
                 !.startedAt = IF j.startedAt = NoDate THEN @ ELSE j.startedAt,
                 !.completedAt = IF j.completedAt = NoDate THEN @ ELSE j.completedAt,
                 !.result = j.result, !.error = j.error,
                 !.retryCount = j.retryCount, !.componentId = j.componentId]

mapToEntity(record) ==
  LET built == constructor(record.id, [prompt |-> record.prompt,
                                       preferredType |-> record.componentType,
                                       context |-> parse(record.requirements),
                                       options |-> parse(record.options)])
  IN  IF built.threw THEN built
      ELSE Ok([built.job EXCEPT !.status = record.status, !.startedAt = record.startedAt,
                 !.completedAt = record.completedAt, !.result = record.result,
                 !.error = record.error, !.retryCount = record.retryCount,
                 !.componentId = record.componentId])

\* the index of the row with this id
RowOf(id) == CHOOSE i \in DOMAIN jobRepo : jobRepo[i].id = id

Updated(j) == [jobRepo EXCEPT ![RowOf(j.id)] = update(@, j)]

\* ------------------------------------------------------- the provider

\* what llmProvider.generateComponent resolves to: a failure, or a component
NoComponent == [componentName |-> <<>>, code |-> <<>>]
LLMResponses ==
  { [success |-> FALSE, component |-> NoComponent],
    [success |-> TRUE, component |-> [componentName |-> <<"C", "a", "r", "d">>, code |-> <<"component">>]],
    [success |-> TRUE, component |-> [componentName |-> <<"C", "a", "r", "d">>, code |-> <<"evalCall">>]],
    [success |-> TRUE, component |-> [componentName |-> <<"1", " ", "x">>, code |-> <<"benign">>]] }

\* ------------------------------------------------- components and names

RECURSIVE ToDecimal(_)
\* the decimal digits of n
ToDecimal(n) ==
  LET digit == <<"0", "1", "2", "3", "4", "5", "6", "7", "8", "9">>[(n % 10) + 1]
  IN  IF n < 10 THEN <<digit>> ELSE ToDecimal(n \div 10) \o <<digit>>

ToUpper(c) ==
  IF \E i \in DOMAIN LowerLetters : LowerLetters[i] = c
  THEN UpperLetters[CHOOSE i \in DOMAIN LowerLetters : LowerLetters[i] = c]
  ELSE c

\* generateUniqueName: the cleaned base name
cleanName(baseName) ==
  LET alnum == SelectSeq(Trim(baseName), LAMBDA c : c \in Letters \cup Digits)
      upper == IF alnum # <<>> /\ ~IsUpper(alnum[1])
               THEN <<ToUpper(alnum[1])>> \o Tail(alnum) ELSE alnum
  IN  IF upper = <<>> THEN <<"G", "e", "n", "e", "r", "a", "t", "e", "d", "C", "o", "m", "p", "o", "n", "e", "n", "t">> ELSE upper

\* new Component(...): whether validateName or validateCode throws
validateName(name) ==
  \/ Len(Trim(name)) = 0
  \/ ~(IsUpper(name[1]) /\ \A i \in DOMAIN name : name[i] \in Letters \cup Digits)
validateCode(code) ==
  IsBlank(CodeText(code)) \/ Len(CodeText(code)) > MaxCodeLength

\* findByName that finds nothing
findByName_never(name) == FALSE

\* componentRepository.findByName
findByName(name) == \E i \in DOMAIN components : components[i].name = name


\* --------------------------------------- ComponentGenerationService

\* a pending promise of the service: the method it runs, the await it is
\* at, and the method's locals
Task(kind, pc, jobId) ==
  [ kind |-> kind, pc |-> pc, jobId |-> jobId, job |-> NoJob, component |-> NoComponent,
    cleanName |-> <<>>, uniqueName |-> <<>>, counter |-> 0, probe |-> "none",
    saved |-> None, step |-> "none", err |-> "none" ]

FreeSlots == {s \in DOMAIN tasks : tasks[s] = NoTask}
At(s, kind, pc) == tasks[s] # NoTask /\ tasks[s].kind = kind /\ tasks[s].pc = pc

\* an exception reaches the catch block of processGenerationJob
Caught(t, step, err) == [t EXCEPT !.pc = "catch", !.step = step, !.err = err]

\* generateComponent: the constructor validates the request, the job is
\* saved and processGenerationJob is started without being awaited
generateComponent ==
  \E request \in Requests :
    LET built == constructor(uuidv4("j", Len(jobRepo) + 1), request)
    IN  IF built.threw
        THEN /\ lastGen' = [op |-> "generateComponent", request |-> request, threw |-> TRUE,
                            rows |-> <<Len(jobRepo), Len(jobRepo)>>, started |-> FALSE]
             /\ UNCHANGED <<now, jobRepo, components, tasks, llm>>
        ELSE /\ Len(jobRepo) < MaxJobs
             /\ FreeSlots # {}
             /\ jobRepo' = Append(jobRepo, create(built.job))
             /\ llm' = [llm EXCEPT !.calls = Append(@, [analyzePrompt |-> 0, generateComponent |-> 0])]
             /\ tasks' = [tasks EXCEPT ![SetMin(FreeSlots)] =
                             Task("processGenerationJob", "findById", built.job.id)]
             /\ lastGen' = [op |-> "generateComponent", request |-> request, threw |-> FALSE,
                            rows |-> <<Len(jobRepo), Len(jobRepo) + 1>>, started |-> TRUE]
             /\ UNCHANGED <<now, components>>

\* processGenerationJob: findById resolves
Process_findById(s) ==
  /\ At(s, "processGenerationJob", "findById")
  /\ LET found == mapToEntity(jobRepo[RowOf(tasks[s].jobId)])
     IN  tasks' = [tasks EXCEPT ![s] = IF found.threw THEN NoTask
                                        ELSE [@ EXCEPT !.pc = "start", !.job = found.job]]
  /\ UNCHANGED <<now, jobRepo, components, llm, lastGen>>

\* job.start() and the update that saves it
Process_start(s) ==
  /\ At(s, "processGenerationJob", "start")
  /\ LET t == tasks[s]
         started == start(t.job, now)
     IN  IF started.threw
         THEN /\ tasks' = [tasks EXCEPT ![s] =
                   Caught(t, "start", "Cannot start job in " \o t.job.status \o " status")]
              /\ UNCHANGED jobRepo
         ELSE /\ tasks' = [tasks EXCEPT ![s] = [t EXCEPT !.pc = "analyzePrompt", !.job = started.job]]
              /\ jobRepo' = Updated(started.job)
  /\ UNCHANGED <<now, components, llm, lastGen>>

\* llmProvider.analyzePrompt resolves
Process_analyzePrompt(s) ==
  /\ At(s, "processGenerationJob", "analyzePrompt")
  /\ LET t == tasks[s]
     IN  /\ llm' = [llm EXCEPT !.calls[RowOf(t.jobId)].analyzePrompt = @ + 1,
                               !.prompts = @ \cup {t.job.request.prompt}]
         /\ tasks' = [tasks EXCEPT ![s].pc = "generateComponent"]
  /\ UNCHANGED <<now, jobRepo, components, lastGen>>

\* llmProvider.generateComponent resolves; on success generateUniqueName begins
Process_generateComponent(s) ==
  /\ At(s, "processGenerationJob", "generateComponent")
  /\ \E llmResponse \in LLMResponses :
       LET t == tasks[s]
           clean == cleanName(llmResponse.component.componentName)
       IN  /\ llm' = [llm EXCEPT !.calls[RowOf(t.jobId)].generateComponent = @ + 1,
                                 !.prompts = @ \cup {t.job.request.prompt}]
           /\ tasks' = [tasks EXCEPT ![s] =
                 IF ~llmResponse.success THEN Caught(t, "generateComponent", "Generation failed")
                 ELSE [t EXCEPT !.pc = "findByName", !.component = llmResponse.component,
                                !.cleanName = clean, !.uniqueName = clean, !.counter = 1]]
  /\ UNCHANGED <<now, jobRepo, components, lastGen>>

\* generateUniqueName has returned name: the Component is constructed
Named(t, name) ==
  IF validateName(name) THEN Caught(t, "new Component", "Component name must start with uppercase letter")
  ELSE IF validateCode(t.component.code) THEN Caught(t, "new Component", "Component code cannot be empty")
  ELSE [t EXCEPT !.pc = "createComponent", !.uniqueName = name]

\* Date.now(): the milliseconds since the epoch, thirteen digits of which
\* the clock reading is the last
DateNow(t) == <<"1", "7", "0", "0", "0", "0", "0", "0", "0", "0", "0", "0">> \o ToDecimal(t)

\* generateUniqueName whose loop has no bound and no timestamp fallback
Process_findByName_unbounded(s) ==
  /\ At(s, "processGenerationJob", "findByName")
  /\ \E rejects \in BOOLEAN :
       LET t == tasks[s]
           next == t.cleanName \o ToDecimal(t.counter)
       IN  tasks' = [tasks EXCEPT ![s] =
             IF rejects THEN Named([t EXCEPT !.probe = "rejected"], t.uniqueName)
             ELSE IF ~findByName(t.uniqueName)
                  THEN Named([t EXCEPT !.probe = "absent"], t.uniqueName)
             ELSE [t EXCEPT !.uniqueName = next, !.counter = @ + 1, !.probe = "exists"]]
  /\ UNCHANGED <<now, jobRepo, components, llm, lastGen>>

\* generateUniqueName: one findByName of the loop resolves or rejects; probe
\* keeps what the last findByName reported
Process_findByName(s) ==
  /\ At(s, "processGenerationJob", "findByName")
  /\ \E rejects \in BOOLEAN :
       LET t == tasks[s]
           next == t.cleanName \o ToDecimal(t.counter)
       IN  tasks' = [tasks EXCEPT ![s] =
             IF rejects THEN Named([t EXCEPT !.probe = "rejected"], t.uniqueName)
             ELSE IF ~findByName(t.uniqueName)
                  THEN Named([t EXCEPT !.probe = "absent"], t.uniqueName)
             ELSE IF t.counter + 1 < MaxNameCounter
                  THEN [t EXCEPT !.uniqueName = next, !.counter = @ + 1, !.probe = "exists"]
                  ELSE Named([t EXCEPT !.probe = "exists"], t.cleanName \o DateNow(now))]
  /\ UNCHANGED <<now, jobRepo, components, llm, lastGen>>

\* componentRepository.create: the insert, which the unique name rejects
Process_createComponent(s) ==
  /\ At(s, "processGenerationJob", "createComponent")
  /\ LET t == tasks[s]
         id == uuidv4("c", Len(components) + 1)
     IN  IF findByName(t.uniqueName)
         THEN /\ tasks' = [tasks EXCEPT ![s] = Caught(t, "componentRepository.create", "Unique constraint failed")]
              /\ UNCHANGED components
         ELSE /\ components' = Append(components,
                    [id |-> id, name |-> t.uniqueName, code |-> t.component.code,
                     codeFrom |-> "llmResponse", jobId |-> t.jobId])
              /\ tasks' = [tasks EXCEPT ![s] = [t EXCEPT !.pc = "complete", !.saved = id]]
  /\ UNCHANGED <<now, jobRepo, llm, lastGen>>

\* job.componentId is set, job.complete(response) and the update that saves it
Process_complete(s) ==
  /\ At(s, "processGenerationJob", "complete")
  /\ LET t == tasks[s]
         withId == [t.job EXCEPT !.componentId = t.saved]
         completed == complete(withId, "response " \o t.saved, now)
     IN  IF completed.threw
         THEN /\ tasks' = [tasks EXCEPT ![s] =
                   Caught([t EXCEPT !.job = withId], "complete", "Cannot complete job")]
              /\ UNCHANGED jobRepo
         ELSE /\ tasks' = [tasks EXCEPT ![s] = NoTask]
              /\ jobRepo' = Updated(completed.job)
  /\ UNCHANGED <<now, components, llm, lastGen>>

\* the catch block: retry() if canRetry(), else fail(err); the update that
\* saves the job; the error is rethrown
Process_catch(s) ==
  /\ At(s, "processGenerationJob", "catch")
  /\ LET t == tasks[s]
         handled == IF canRetry(t.job) THEN retry(t.job) ELSE fail(t.job, t.err, now)
     IN  /\ jobRepo' = IF handled.threw THEN jobRepo ELSE Updated(handled.job)
         /\ tasks' = [tasks EXCEPT ![s] = NoTask]
  /\ UNCHANGED <<now, components, llm, lastGen>>

\* retryJob is called: its findById is pending
retryJob ==
  \E s \in FreeSlots, i \in DOMAIN jobRepo :
    /\ s = SetMin(FreeSlots)
    /\ llm.calls[i].analyzePrompt < MaxCalls
    /\ tasks' = [tasks EXCEPT ![s] = Task("retryJob", "findById", jobRepo[i].id)]
    /\ UNCHANGED <<now, jobRepo, components, llm, lastGen>>

RetryJob_findById(s) ==
  /\ At(s, "retryJob", "findById")
  /\ LET found == mapToEntity(jobRepo[RowOf(tasks[s].jobId)])
     IN  tasks' = [tasks EXCEPT ![s] =
                     IF ~found.threw /\ canRetry(found.job)
                     THEN [@ EXCEPT !.pc = "update", !.job = found.job] ELSE NoTask]
  /\ UNCHANGED <<now, jobRepo, components, llm, lastGen>>

\* job.retry(), the update that saves it, and processGenerationJob restarted
RetryJob_update(s) ==
  /\ At(s, "retryJob", "update")
  /\ LET retried == retry(tasks[s].job)
     IN  /\ ~retried.threw
         /\ jobRepo' = Updated(retried.job)
         /\ tasks' = [tasks EXCEPT ![s] = Task("processGenerationJob", "findById", tasks[s].jobId)]
  /\ UNCHANGED <<now, components, llm, lastGen>>

\* cancelJob is called: its findById is pending
cancelJob ==
  \E s \in FreeSlots, i \in DOMAIN jobRepo :
    /\ s = SetMin(FreeSlots)
    /\ tasks' = [tasks EXCEPT ![s] = Task("cancelJob", "findById", jobRepo[i].id)]
    /\ UNCHANGED <<now, jobRepo, components, llm, lastGen>>

CancelJob_findById(s) ==
  /\ At(s, "cancelJob", "findById")
  /\ LET found == mapToEntity(jobRepo[RowOf(tasks[s].jobId)])
     IN  tasks' = [tasks EXCEPT ![s] =
                     IF ~found.threw /\ ~isCompleted(found.job)
                     THEN [@ EXCEPT !.pc = "update", !.job = found.job] ELSE NoTask]
  /\ UNCHANGED <<now, jobRepo, components, llm, lastGen>>

\* job.fail('Job cancelled by user') and the update that saves it
CancelJob_update(s) ==
  /\ At(s, "cancelJob", "update")
  /\ LET failed == fail(tasks[s].job, "Job cancelled by user", now)
     IN  /\ jobRepo' = IF failed.threw THEN jobRepo ELSE Updated(failed.job)
         /\ tasks' = [tasks EXCEPT ![s] = NoTask]
  /\ UNCHANGED <<now, components, llm, lastGen>>

SvcTick == Tick /\ UNCHANGED svcVars

InitSvc ==
  /\ now = 1
  /\ EntityIdle
  /\ ValIdle
  /\ PreviewIdle
  /\ SvcIdle

NextSvc ==
  \/ generateComponent /\ UNCHANGED <<entityVars, valVars, previewVars>>
  \/ \E s \in DOMAIN tasks : Process_findById(s) /\ UNCHANGED <<entityVars, valVars, previewVars>>
  \/ \E s \in DOMAIN tasks : Process_start(s) /\ UNCHANGED <<entityVars, valVars, previewVars>>
  \/ \E s \in DOMAIN tasks : Process_analyzePrompt(s) /\ UNCHANGED <<entityVars, valVars, previewVars>>
  \/ \E s \in DOMAIN tasks : Process_generateComponent(s) /\ UNCHANGED <<entityVars, valVars, previewVars>>
  \/ \E s \in DOMAIN tasks : Process_findByName(s) /\ UNCHANGED <<entityVars, valVars, previewVars>>
  \/ \E s \in DOMAIN tasks : Process_createComponent(s) /\ UNCHANGED <<entityVars, valVars, previewVars>>
  \/ \E s \in DOMAIN tasks : Process_complete(s) /\ UNCHANGED <<entityVars, valVars, previewVars>>
  \/ \E s \in DOMAIN tasks : Process_catch(s) /\ UNCHANGED <<entityVars, valVars, previewVars>>
  \/ retryJob /\ UNCHANGED <<entityVars, valVars, previewVars>>
  \/ \E s \in DOMAIN tasks : RetryJob_findById(s) /\ UNCHANGED <<entityVars, valVars, previewVars>>
  \/ \E s \in DOMAIN tasks : RetryJob_update(s) /\ UNCHANGED <<entityVars, valVars, previewVars>>
  \/ cancelJob /\ UNCHANGED <<entityVars, valVars, previewVars>>
  \/ \E s \in DOMAIN tasks : CancelJob_findById(s) /\ UNCHANGED <<entityVars, valVars, previewVars>>
  \/ \E s \in DOMAIN tasks : CancelJob_update(s) /\ UNCHANGED <<entityVars, valVars, previewVars>>
  \/ SvcTick /\ UNCHANGED <<entityVars, valVars, previewVars>>

SpecSvc == InitSvc /\ [][NextSvc]_vars


\* generateComponent and the processing it starts, with no retryJob or
\* cancelJob call and no clock step
NextGen ==
  \/ generateComponent /\ UNCHANGED <<entityVars, valVars, previewVars>>
  \/ \E s \in DOMAIN tasks : Process_findById(s) /\ UNCHANGED <<entityVars, valVars, previewVars>>
  \/ \E s \in DOMAIN tasks : Process_start(s) /\ UNCHANGED <<entityVars, valVars, previewVars>>
  \/ \E s \in DOMAIN tasks : Process_analyzePrompt(s) /\ UNCHANGED <<entityVars, valVars, previewVars>>
  \/ \E s \in DOMAIN tasks : Process_generateComponent(s) /\ UNCHANGED <<entityVars, valVars, previewVars>>
  \/ \E s \in DOMAIN tasks : Process_findByName(s) /\ UNCHANGED <<entityVars, valVars, previewVars>>
  \/ \E s \in DOMAIN tasks : Process_createComponent(s) /\ UNCHANGED <<entityVars, valVars, previewVars>>
  \/ \E s \in DOMAIN tasks : Process_complete(s) /\ UNCHANGED <<entityVars, valVars, previewVars>>
  \/ \E s \in DOMAIN tasks : Process_catch(s) /\ UNCHANGED <<entityVars, valVars, previewVars>>

SpecGen == InitSvc /\ [][NextGen]_vars

\* ------------------------------------------------ claims on the service

\* C4: in processGenerationJob, when a step after start() fails (the
\* provider reports failure, or naming or persistence throws) and the job
\* still has retry budget (retryCount < maxRetries), retry() is applied and
\* the job is saved back in PENDING with retryCount incremented; only when
\* the budget is exhausted is the job saved as FAILED with the captured error.
C4_RetryWhileBudgetRemains ==
  [][\A s \in DOMAIN tasks :
       (/\ At(s, "processGenerationJob", "catch")
        /\ tasks[s].step # "start"
        /\ tasks'[s] = NoTask) =>
          LET j == tasks[s].job
              saved == jobRepo'[RowOf(j.id)]
          IN  IF j.retryCount < j.maxRetries
              THEN saved.status = PENDING /\ saved.retryCount = j.retryCount + 1
              ELSE saved.status = FAILED /\ saved.error = tasks[s].err]_vars

\* the three checks of validateGeneratedCode pass
ValidatorPasses(code) ==
  /\ validateTypeScript(code, FALSE).isValid
  /\ validateSafety(code, FALSE).isValid
  /\ validateImports(code, FALSE).isValid

\* C5: every artifact processGenerationJob hands to componentRepository.create
\* has source that passed the Code Validator, or was replaced by a
\* template-generated equivalent; no provider output is saved without one of
\* the two having happened first.
C5_SavedCodeValidated ==
  \A i \in DOMAIN components :
    ValidatorPasses(components[i].code) \/ components[i].codeFrom = "template"

\* the prompts that are absent, empty, whitespace-only or longer than 2000 characters
EmptyOrTooLong ==
  {p \in DOMAIN Prompts :
      ~Prompts[p].present \/ IsBlank(Prompts[p].text) \/ Len(Prompts[p].text) > 2000}

\* C10: for every request whose prompt is empty (whitespace-only included)
\* or longer than 2000 characters, generateComponent rejects before any job
\* record is created in the job repository and before any provider call
\* (analyzePrompt or generateComponent): the call throws, adds no row and
\* starts no processing, so no row and no provider call carries such a prompt.
C10_BadPromptRejectedFirst ==
  /\ (lastGen.op = "generateComponent" /\ lastGen.request.prompt \in EmptyOrTooLong) =>
        (lastGen.threw /\ lastGen.rows[1] = lastGen.rows[2] /\ ~lastGen.started)
  /\ \A i \in DOMAIN jobRepo : jobRepo[i].prompt \notin EmptyOrTooLong
  /\ llm.prompts \cap EmptyOrTooLong = {}

\* an over-length prompt is rejected after a job has been created and the
\* provider called for it
C10_Witness ==
  /\ lastGen.op = "generateComponent"
  /\ lastGen.request.prompt = "over"
  /\ lastGen.threw
  /\ Len(jobRepo) = 1
  /\ llm.calls[1].generateComponent > 0


\* ------------------------------------- further claims on the entity

\* C14: rateLimit() is permitted only from PENDING or PROCESSING: invoked on
\* a job whose status is SUCCESS, FAILED, PARTIAL, TIMEOUT or RATE_LIMITED it
\* fails and leaves the job's status, error and completedAt unchanged.
C14_RateLimitOnlyFromNonTerminal ==
  (lastCall.op = "rateLimit" /\ lastCall.pre.status \in Terminal) =>
      /\ lastCall.threw
      /\ job.status = lastCall.pre.status
      /\ job.error = lastCall.pre.error
      /\ job.completedAt = lastCall.pre.completedAt

\* C15: for a job created with retryCount 0, after any sequence of transition
\* calls 0 <= retryCount <= maxRetries, and the job has entered PROCESSING at
\* most maxRetries + 1 times.
C15_RetryCountBounded ==
  /\ 0 <= job.retryCount
  /\ job.retryCount <= job.maxRetries
  /\ lastCall.starts <= job.maxRetries + 1

\* the budget is used up and the job has started maxRetries + 1 times
C15_Witness ==
  /\ job.retryCount = job.maxRetries
  /\ lastCall.starts = job.maxRetries + 1
  /\ lastCall.op = "start"
  /\ ~lastCall.threw


\* ------------------------- SpecName: naming against a catalog that stands

\* the k-th name of the sequence base, base1, base2, ...
Candidate(base, k) == IF k = 0 THEN base ELSE base \o ToDecimal(k)

\* the catalogs naming starts from: which names of the sequence are stored
CatalogShapes ==
  { {}, {0}, {1}, {0, 1}, {0, 2}, {0, 1, 2},
    0..(MaxNameCounter - 3), 0..(MaxNameCounter - 2), 0..(MaxNameCounter - 1) }

\* the component table holding the names Candidate(base, k) for k in shape,
\* stored by earlier jobs
Catalog(base, shape) ==
  LET ks == {k \in 0..MaxNameCounter : k \in shape}
      nth(i) == CHOOSE k \in ks : Cardinality({m \in ks : m < k}) = i - 1
  IN  [i \in 1..Cardinality(ks) |->
         [id |-> uuidv4("c", i), name |-> Candidate(base, nth(i)),
          code |-> <<"component">>, codeFrom |-> "llmResponse", jobId |-> "j0"]]

\* a job that has been started and whose analyzePrompt has resolved, with a
\* catalog left by earlier jobs
InitName ==
  LET request == [prompt |-> "short", preferredType |-> "MUICard",
                  context |-> NoObject, options |-> NoObject]
      started == start(NewJob("j1", request), 1).job
  IN  /\ now = 1
      /\ EntityIdle
      /\ ValIdle
      /\ PreviewIdle
      /\ \E shape \in CatalogShapes : components = Catalog(<<"C", "a", "r", "d">>, shape)
      /\ jobRepo = <<create(started)>>
      /\ tasks = [s \in 1..MaxTasks |->
                    IF s = 1 THEN [Task("processGenerationJob", "generateComponent", "j1")
                                     EXCEPT !.job = started]
                    ELSE NoTask]
      /\ llm = [calls |-> <<[analyzePrompt |-> 1, generateComponent |-> 0]>>, prompts |-> {"short"}]
      /\ lastGen = [op |-> "generateComponent", request |-> request, threw |-> FALSE,
                    rows |-> <<0, 1>>, started |-> TRUE]

NextName ==
  \/ \E s \in DOMAIN tasks : Process_generateComponent(s) /\ UNCHANGED <<entityVars, valVars, previewVars>>
  \/ \E s \in DOMAIN tasks : Process_findByName(s) /\ UNCHANGED <<entityVars, valVars, previewVars>>
  \/ \E s \in DOMAIN tasks : Process_createComponent(s) /\ UNCHANGED <<entityVars, valVars, previewVars>>
  \/ \E s \in DOMAIN tasks : Process_complete(s) /\ UNCHANGED <<entityVars, valVars, previewVars>>
  \/ \E s \in DOMAIN tasks : Process_catch(s) /\ UNCHANGED <<entityVars, valVars, previewVars>>
  \/ SvcTick /\ UNCHANGED <<entityVars, valVars, previewVars>>

SpecName == InitName /\ [][NextName]_vars


\* ------------------------------------------------- claims on naming

\* a component of this name is stored
InCatalog(name) == \E i \in DOMAIN components : components[i].name = name

\* the first name of base, base1, base2, ... that is not stored
FirstAbsent(base) ==
  Candidate(base, CHOOSE k \in 0..MaxNameCounter :
                     /\ ~InCatalog(Candidate(base, k))
                     /\ \A m \in 0..(k - 1) : InCatalog(Candidate(base, m)))

\* generateUniqueName returns in this step and the Component is constructed
Returns(s) ==
  /\ At(s, "processGenerationJob", "findByName")
  /\ tasks'[s] # NoTask
  /\ tasks'[s].pc = "createComponent"

\* C11 as stated: generateUniqueName(base) returns the first name of the
\* sequence base, base1, base2, ... that findByName reports absent, and the
\* component is stored under it.
C11_FirstAbsentName ==
  [][\A s \in DOMAIN tasks :
       Returns(s) => tasks'[s].uniqueName = FirstAbsent(tasks[s].component.componentName)]_vars

\* C11, amended: generateUniqueName(base) returns the first name of the
\* sequence base, base1, base2, ... that findByName reports absent when every
\* probe resolves and one of the first 99 names is absent; a probe that
\* rejects makes it return the name being probed, and when the 99 probed
\* names all exist it returns the base followed by the timestamp. The
\* component is stored under the returned name, so a job proposing Card
\* after Card was stored stores Card1.
C11_FirstAbsentWhenProbesResolve ==
  [][\A s \in DOMAIN tasks :
       /\ Returns(s) =>
            LET t == tasks[s]
                name == tasks'[s].uniqueName
            IN  /\ tasks'[s].probe = "absent" =>
                      name = FirstAbsent(t.component.componentName)
                /\ tasks'[s].probe = "rejected" => name = t.uniqueName
                /\ tasks'[s].probe = "exists" =>
                      /\ name = t.cleanName \o DateNow(now)
                      /\ \A k \in 0..98 : InCatalog(Candidate(t.cleanName, k))
       /\ (At(s, "processGenerationJob", "createComponent") /\ components' # components) =>
            components'[Len(components')].name = tasks[s].uniqueName]_vars

\* Card and Card1 are stored and naming has returned Card2
C11_Witness ==
  /\ At(1, "processGenerationJob", "createComponent")
  /\ tasks[1].probe = "absent"
  /\ InCatalog(<<"C", "a", "r", "d">>) /\ InCatalog(<<"C", "a", "r", "d", "1">>)
  /\ tasks[1].uniqueName = <<"C", "a", "r", "d", "2">>

\* C13: generateUniqueName terminates after fewer than 100 findByName probes
\* whatever the catalog contains and whatever base name is proposed; when
\* every probed name exists it returns the cleaned base name followed by a
\* timestamp, and the returned name is never empty.
C13_NamingTerminates ==
  /\ [](\A s \in DOMAIN tasks :
          /\ At(s, "processGenerationJob", "findByName") =>
                (tasks[s].counter >= 1 /\ tasks[s].counter < 100 /\ tasks[s].uniqueName # <<>>)
          /\ At(s, "processGenerationJob", "createComponent") => tasks[s].uniqueName # <<>>)
  /\ [][\A s \in DOMAIN tasks :
          (Returns(s) /\ tasks'[s].probe = "exists") =>
              /\ tasks[s].counter = 99
              /\ tasks'[s].uniqueName = cleanName(tasks[s].component.componentName) \o DateNow(now)]_vars

\* the 99 probed names all exist and the timestamp name is returned
C13_Witness ==
  /\ At(1, "processGenerationJob", "createComponent")
  /\ tasks[1].probe = "exists"
  /\ tasks[1].counter = 99
  /\ tasks[1].uniqueName = <<"C", "a", "r", "d">> \o DateNow(now)


\* ------------------------- SpecRace: two jobs name and save concurrently

\* two jobs created by two generateComponent calls, both started and past
\* analyzePrompt, their processGenerationJob runs interleaving
InitRace ==
  LET request == [prompt |-> "short", preferredType |-> "MUICard",
                  context |-> NoObject, options |-> NoObject]
      started(id) == start(NewJob(id, request), 1).job
  IN  /\ now = 1
      /\ EntityIdle
      /\ ValIdle
      /\ PreviewIdle
      /\ \E shape \in {{}, {0}} : components = Catalog(<<"C", "a", "r", "d">>, shape)
      /\ jobRepo = <<create(started("j1")), create(started("j2"))>>
      /\ tasks = [s \in 1..MaxTasks |->
                    IF s <= 2 THEN [Task("processGenerationJob", "generateComponent", uuidv4("j", s))
                                      EXCEPT !.job = started(uuidv4("j", s))]
                    ELSE NoTask]
      /\ llm = [calls |-> <<[analyzePrompt |-> 1, generateComponent |-> 0],
                            [analyzePrompt |-> 1, generateComponent |-> 0]>>,
                prompts |-> {"short"}]
      /\ lastGen = [op |-> "generateComponent", request |-> request, threw |-> FALSE,
                    rows |-> <<1, 2>>, started |-> TRUE]

NextRace == NextName

SpecRace == InitRace /\ [][NextRace]_vars

\* the component table never holds a name twice
UniqueNames ==
  \A i, k \in DOMAIN components : components[i].name = components[k].name => i = k

\* C12: when two jobs run concurrently and propose the same name, a job whose
\* create collides with a name stored since its probe reported it absent
\* picks a name again and retries instead of failing on the collision, and
\* no two stored components share a name.
C12_CollisionRetried ==
  /\ []UniqueNames
  /\ [][\A s \in DOMAIN tasks :
          ( /\ At(s, "processGenerationJob", "createComponent")
            /\ tasks[s].probe = "absent"
            /\ InCatalog(tasks[s].uniqueName)
            /\ tasks'[s] # tasks[s] ) =>
              /\ tasks'[s] # NoTask
              /\ tasks'[s].pc \in {"findByName", "createComponent", "complete"}]_vars


\* ------------------------------------------------- claims on stored jobs

\* C16: in every job state a caller can read from the job repository,
\* status = PENDING implies that error, startedAt and completedAt are all
\* absent, under any interleaving of reads with processGenerationJob and
\* retryJob.
C16_PendingRowIsReset ==
  \A i \in DOMAIN jobRepo :
    jobRepo[i].status = PENDING =>
      /\ jobRepo[i].error = None
      /\ jobRepo[i].startedAt = NullDate
      /\ jobRepo[i].completedAt = NullDate


\* ------------------------- SpecStatus: the job status route polls a job

\* component: null in the response of the job status route
NoStoredComponent == [id |-> "none"]

\* componentRepository.findById behind getComponentById
getComponentById(componentId) ==
  IF \E i \in DOMAIN components : components[i].id = componentId
  THEN LET row == components[CHOOSE i \in DOMAIN components : components[i].id = componentId]
       IN  [id |-> row.id, name |-> row.name, code |-> row.code]
  ELSE NoStoredComponent

\* GET /api/jobs/[jobId]: the job is read with getJobStatus; the component is
\* fetched when job.status === 'COMPLETED' and the job has a componentId
JobStatusGET(jobId) ==
  IF ~\E i \in DOMAIN jobRepo : jobRepo[i].id = jobId
  THEN [route |-> "GET /api/jobs/[jobId]", status |-> 404]
  ELSE LET found == mapToEntity(jobRepo[RowOf(jobId)])
           j == found.job
       IN  IF found.threw THEN [route |-> "GET /api/jobs/[jobId]", status |-> 500]
           ELSE [route |-> "GET /api/jobs/[jobId]", status |-> 200,
                 job |-> [id |-> j.id, status |-> j.status, componentId |-> j.componentId],
                 component |-> IF j.status = "COMPLETED" /\ j.componentId # None
                               THEN getComponentById(j.componentId)
                               ELSE NoStoredComponent]

\* the identifiers the route is asked about: the job's, and an unknown one
JobIds == {"j1", "j9"}

RouteJobStatus ==
  \E jobId \in JobIds :
    /\ response' = JobStatusGET(jobId)
    /\ UNCHANGED <<now, entityVars, valVars, pv, blobs, frame, frameMsg, svcVars>>

\* a job that has been started and whose analyzePrompt has resolved; the
\* component table is empty
InitStatus ==
  /\ InitName
  /\ components = <<>>

NextStatus ==
  \/ NextName
  \/ RouteJobStatus

SpecStatus == InitStatus /\ [][NextStatus]_vars

\* C17: a job-status query returns the stored component when and only when
\* the job's state is SUCCESS or PARTIAL: for every job that reached such a
\* state, and never for a job in PENDING, PROCESSING, FAILED, TIMEOUT or
\* RATE_LIMITED.
C17_ComponentIffSuccessLike ==
  (response.route = "GET /api/jobs/[jobId]" /\ response.status = 200) =>
      (response.component # NoStoredComponent <=> response.job.status \in {SUCCESS, PARTIAL})

\* the half of C17 that stands: no component for a job that is not SUCCESS
\* or PARTIAL
NoComponentUnlessSuccessLike ==
  (response.route = "GET /api/jobs/[jobId]" /\ response.status = 200) =>
      (response.component # NoStoredComponent => response.job.status \in {SUCCESS, PARTIAL})


\* the pairs an object-valued field holds; an absent one holds none
Flags(object) == IF object = NoObject THEN {} ELSE object

\* two requests with the same prompt, preferred type, context flags and options
SameRequest(r1, r2) ==
  /\ r1.prompt = r2.prompt
  /\ r1.preferredType = r2.preferredType
  /\ Flags(r1.context) = Flags(r2.context)
  /\ Flags(r1.options) = Flags(r2.options)

\* C18: a job's GenerationRequest is immutable once the job is created: the
\* request processGenerationJob reads back from the job repository and
\* passes to the provider (prompt, preferred type, context flags, options)
\* equals the request submitted when the job was created.
C18_RequestReadBackEqual ==
  [][\A s \in DOMAIN tasks :
       ( /\ At(s, "processGenerationJob", "generateComponent")
         /\ llm' # llm
         /\ lastGen.op = "generateComponent" /\ ~lastGen.threw
         /\ lastGen.rows[2] = RowOf(tasks[s].jobId) ) =>
           SameRequest(tasks[s].job.request, lastGen.request)]_vars

\* what does survive the job repository: the prompt
PromptReadBackEqual ==
  [][\A s \in DOMAIN tasks :
       ( /\ At(s, "processGenerationJob", "generateComponent")
         /\ llm' # llm
         /\ lastGen.op = "generateComponent" /\ ~lastGen.threw
         /\ lastGen.rows[2] = RowOf(tasks[s].jobId) ) =>
           tasks[s].job.request.prompt = lastGen.request.prompt]_vars


\* ------------------- SpecRoute: the validate route on security fragments

\* the fragments the security scan is about, a component and a benign line
RouteFragments ==
  {"benign", "component", "evalCall", "location", "storageUse", "dynamicAccess"}

InitRoute ==
  /\ InitVal
  /\ \A i \in DOMAIN src : src[i] \in RouteFragments

NextRoute == RouteValidate /\ UNCHANGED <<now, entityVars, previewVars, svcVars>>

SpecRoute == InitRoute /\ [][NextRoute]_vars

\* ------------------------------------------- claims on the validate route

\* the source matches a pattern of the validator's forbidden list
MatchesForbiddenPattern(text) ==
  \E i \in DOMAIN forbiddenPatterns : Test(forbiddenPatterns[i], text)

HasSecurityFinding(result) ==
  \E i \in DOMAIN result.errors : result.errors[i].type = "security"

\* the request's options leave the security scan on
SecurityRequested(options) ==
  IF options = NoOptions THEN TRUE ELSE options.security

\* C19 as stated: for every validation request whose source contains a
\* forbidden pattern such as window.location = 'x', whatever options
\* accompany the request, the combined outcome has isValid = false and
\* contains a finding of type security.
C19_ForbiddenPatternRejectedAlways ==
  (out.op = "POST /api/validate" /\ out.result.status = 200
     /\ MatchesForbiddenPattern(CodeText(src))) =>
       (~out.result.isValid /\ HasSecurityFinding(out.result))

\* C19, amended: for every validation request whose source contains a
\* forbidden pattern such as window.location = 'x' and whose options do not
\* set security to false, the combined outcome has isValid = false and
\* contains a finding of type security; with security set to false the
\* outcome contains no finding of type security.
C19_ForbiddenPatternRejectedUnlessScanOff ==
  (out.op = "POST /api/validate" /\ out.result.status = 200
     /\ MatchesForbiddenPattern(CodeText(src))) =>
       IF SecurityRequested(out.options)
       THEN ~out.result.isValid /\ HasSecurityFinding(out.result)
       ELSE ~HasSecurityFinding(out.result)

\* window.location = 'x' validated with no options: a security finding
C19_Witness ==
  /\ out.op = "POST /api/validate"
  /\ out.options = NoOptions
  /\ src = <<"location">>
  /\ out.result.status = 200
  /\ ~out.result.isValid
  /\ HasSecurityFinding(out.result)


\* ------------- SpecPreviewLive: the host waits for the frame it has started

\* the message listener of the host: a preview-error message sets the error
\* and ends loading; any other message, preview-ready included, changes nothing
HandleMessage ==
  \E type \in {"preview-error", "preview-ready"} :
    /\ frame.by # "none"
    /\ frameMsg' = type
    /\ pv' = IF type = "preview-error"
             THEN [pv EXCEPT !.error = "Component error", !.loading = FALSE]
             ELSE pv
    /\ UNCHANGED <<blobs, frame>>

\* onError of the iframe: the document could not be loaded
HandleIframeError ==
  /\ pv.error = None
  /\ pv.previewUrl # NoUrl
  /\ frame # blobs[pv.previewUrl].html
  /\ pv' = [pv EXCEPT !.loading = FALSE, !.error = "Failed to load component preview"]
  /\ UNCHANGED <<blobs, frame, frameMsg>>

NextPreviewLive ==
  \/ GeneratePreview /\ UNCHANGED <<now, entityVars, valVars, svcVars, response>>
  \/ IframeLoad /\ UNCHANGED <<now, entityVars, valVars, svcVars, response>>
  \/ HandleMessage /\ UNCHANGED <<now, entityVars, valVars, svcVars, response>>
  \/ HandleIframeError /\ UNCHANGED <<now, entityVars, valVars, svcVars, response>>

\* the browser does load the document of an iframe whose src is set; whether
\* the document's script ever posts a message is up to the document
SpecPreviewLive ==
  /\ InitPreview
  /\ [][NextPreviewLive]_vars
  /\ WF_vars(IframeLoad /\ UNCHANGED <<now, entityVars, valVars, svcVars, response>>)

\* the host has started a render and no message has come from the frame
AwaitingFrame ==
  /\ pv.previewUrl # NoUrl
  /\ pv.error = None
  /\ frameMsg = "none"

\* C20: after the host starts a preview render, if the frame delivers
\* neither a ready message nor an error message within a bounded wait, the
\* host moves to its error state; it never remains indefinitely in a
\* non-failed state waiting for the frame.
C20_SilentFrameTimesOut ==
  AwaitingFrame ~> (pv.error # None \/ frameMsg # "none")


\* ------------------------------------- claims on the entity's field shape

\* C28: in every state reachable from a freshly created job by any sequence
\* of transition calls: PENDING implies error, startedAt and completedAt are
\* absent; PROCESSING implies startedAt is set and completedAt is absent;
\* SUCCESS implies result is present and error is absent; PARTIAL implies
\* result and error are present; FAILED, TIMEOUT and RATE_LIMITED imply
\* error and completedAt are present.
C28_FieldsFollowStatus ==
  /\ job.status = PENDING =>
        (job.error = None /\ job.startedAt = NoDate /\ job.completedAt = NoDate)
  /\ job.status = PROCESSING =>
        (job.startedAt # NoDate /\ job.completedAt = NoDate)
  /\ job.status = SUCCESS => (job.result # None /\ job.error = None)
  /\ job.status = PARTIAL => (job.result # None /\ job.error # None)
  /\ job.status \in {FAILED, TIMEOUT, RATE_LIMITED} =>
        (job.error # None /\ job.completedAt # NoDate)

\* a job that failed, was retried, and then completed partially
C28_Witness ==
  /\ job.status = PARTIAL
  /\ job.retryCount = 1
  /\ lastCall.op = "partialComplete" /\ ~lastCall.threw
  /\ job.result # None /\ job.error # None


\* ------------------------------------------------- claims on cancelJob

\* C29: cancelJob on a job that is not yet completed (PENDING or PROCESSING)
\* returns normally and leaves the job persisted as FAILED with the error
\* 'Job cancelled by user'; cancelJob on a completed job changes nothing.
C29_CancelFailsTheJob ==
  [][\A s \in DOMAIN tasks :
       /\ (At(s, "cancelJob", "update") /\ tasks'[s] = NoTask) =>
            LET saved == jobRepo'[RowOf(tasks[s].jobId)]
            IN  /\ fail(tasks[s].job, "Job cancelled by user", now).threw = FALSE
                /\ saved.status = FAILED
                /\ saved.error = "Job cancelled by user"
       /\ (At(s, "cancelJob", "findById") /\ tasks'[s] = NoTask) => jobRepo' = jobRepo]_vars

\* the part that stands: a job loaded in PROCESSING is saved as FAILED
CancelFailsProcessingJob ==
  [][\A s \in DOMAIN tasks :
       (At(s, "cancelJob", "update") /\ tasks'[s] = NoTask
          /\ tasks[s].job.status = PROCESSING) =>
            LET saved == jobRepo'[RowOf(tasks[s].jobId)]
            IN  saved.status = FAILED /\ saved.error = "Job cancelled by user"]_vars


\* --------- SpecLive: every awaited call returns or throws, updates included

\* job.complete(response) succeeds on the job in memory and the
\* jobRepository.update that saves it rejects: the catch block is entered
\* with the job in SUCCESS
Process_completeUpdateRejects(s) ==
  /\ At(s, "processGenerationJob", "complete")
  /\ LET t == tasks[s]
         withId == [t.job EXCEPT !.componentId = t.saved]
         completed == complete(withId, "response " \o t.saved, now)
     IN  /\ ~completed.threw
         /\ tasks' = [tasks EXCEPT ![s] =
               Caught([t EXCEPT !.job = completed.job], "jobRepository.update", "update failed")]
  /\ UNCHANGED <<now, jobRepo, components, llm, lastGen>>

\* the pending call of the promise in slot s returns or throws
ProcessStep(s) ==
  \/ Process_findById(s)
  \/ Process_start(s)
  \/ Process_analyzePrompt(s)
  \/ Process_generateComponent(s)
  \/ Process_findByName(s)
  \/ Process_createComponent(s)
  \/ Process_complete(s)
  \/ Process_completeUpdateRejects(s)
  \/ Process_catch(s)

NextLive ==
  \/ generateComponent /\ UNCHANGED <<entityVars, valVars, previewVars>>
  \/ \E s \in DOMAIN tasks : ProcessStep(s) /\ UNCHANGED <<entityVars, valVars, previewVars>>

\* no awaited call stays pending for ever
SpecLive ==
  /\ InitSvc
  /\ [][NextLive]_vars
  /\ \A s \in 1..MaxTasks : WF_vars(ProcessStep(s) /\ UNCHANGED <<entityVars, valVars, previewVars>>)

\* C25: every job created by generateComponent eventually reaches a
\* persisted terminal state, provided each provider and repository call
\* eventually returns or throws: no job stays persisted as PENDING or
\* PROCESSING for ever, including when a repository update throws after the
\* component has been stored.
C25_JobsReachTerminal ==
  \A i \in 1..MaxJobs :
    (Len(jobRepo) >= i) ~> (Len(jobRepo) >= i /\ jobRepo[i].status \in Terminal)


\* ------------------------------------------ claims on interleaved writes

\* C26: once a job has been persisted with status SUCCESS, its persisted
\* status and result never change afterwards, under any interleaving of
\* processGenerationJob, retryJob and cancelJob calls on that job.
C26_SuccessIsFinal ==
  [][\A i \in DOMAIN jobRepo :
       jobRepo[i].status = SUCCESS =>
         /\ jobRepo'[i].status = SUCCESS
         /\ jobRepo'[i].result = jobRepo[i].result]_vars


\* -------------- SpecRetry: retryJob calls on a job whose first attempt failed

\* retryJob is not called on a job the provider has seen MaxRetryCalls times
MaxRetryCalls == 4

\* retryJob is called, as long as the provider has seen the job less than
\* bound times: its findById is pending
retryJobWithin(bound) ==
  \E s \in FreeSlots, i \in DOMAIN jobRepo :
    /\ s = SetMin(FreeSlots)
    /\ llm.calls[i].generateComponent < bound
    /\ tasks' = [tasks EXCEPT ![s] = Task("retryJob", "findById", jobRepo[i].id)]
    /\ UNCHANGED <<now, jobRepo, components, llm, lastGen>>

\* a job whose only attempt has failed: the provider was called once and the
\* catch block has saved the job as FAILED
InitRetry ==
  LET request == [prompt |-> "short", preferredType |-> "MUICard",
                  context |-> NoObject, options |-> NoObject]
      created == create(NewJob("j1", request))
      started == start(mapToEntity(created).job, 1).job
      failed == fail(started, "Generation failed", 1).job
  IN  /\ now = 1
      /\ EntityIdle
      /\ ValIdle
      /\ PreviewIdle
      /\ components = <<>>
      /\ jobRepo = <<update(update(created, started), failed)>>
      /\ tasks = [s \in 1..MaxTasks |-> NoTask]
      /\ llm = [calls |-> <<[analyzePrompt |-> 1, generateComponent |-> 1]>>, prompts |-> {"short"}]
      /\ lastGen = [op |-> "generateComponent", request |-> request, threw |-> FALSE,
                    rows |-> <<0, 1>>, started |-> TRUE]

NextRetry ==
  \/ retryJobWithin(MaxRetryCalls) /\ UNCHANGED <<entityVars, valVars, previewVars>>
  \/ \E s \in DOMAIN tasks : RetryJob_findById(s) /\ UNCHANGED <<entityVars, valVars, previewVars>>
  \/ \E s \in DOMAIN tasks : RetryJob_update(s) /\ UNCHANGED <<entityVars, valVars, previewVars>>
  \/ \E s \in DOMAIN tasks : Process_findById(s) /\ UNCHANGED <<entityVars, valVars, previewVars>>
  \/ \E s \in DOMAIN tasks : Process_start(s) /\ UNCHANGED <<entityVars, valVars, previewVars>>
  \/ \E s \in DOMAIN tasks : Process_analyzePrompt(s) /\ UNCHANGED <<entityVars, valVars, previewVars>>
  \/ \E s \in DOMAIN tasks : Process_generateComponent(s) /\ UNCHANGED <<entityVars, valVars, previewVars>>
  \/ \E s \in DOMAIN tasks : Process_findByName(s) /\ UNCHANGED <<entityVars, valVars, previewVars>>
  \/ \E s \in DOMAIN tasks : Process_createComponent(s) /\ UNCHANGED <<entityVars, valVars, previewVars>>
  \/ \E s \in DOMAIN tasks : Process_complete(s) /\ UNCHANGED <<entityVars, valVars, previewVars>>
  \/ \E s \in DOMAIN tasks : Process_catch(s) /\ UNCHANGED <<entityVars, valVars, previewVars>>

SpecRetry == InitRetry /\ [][NextRetry]_vars

\* C27: for any one job the provider's generateComponent is invoked at most
\* maxRetries + 1 times, under any interleaving of generateComponent,
\* processGenerationJob and retryJob calls on that job, retryJob calls that
\* overlap each other included.
C27_ProviderCallsBounded ==
  \A i \in DOMAIN jobRepo : llm.calls[i].generateComponent <= maxRetriesDefault + 1


\* ------------- SpecMount: one preview component from its mount to its unmount

\* the two files whose preview component builds blob URLs
BlobHosts == {"part_008", "ComponentPreview.tsx"}

\* the previewContent prop: absent, or a document the server has built
PreviewContents == {<<>>, <<"<", "p", "/", ">">>}

\* the code prop: absent, a component, a component after an edit
PreviewCodes == {<<>>, <<"component">>, <<"benign", "component">>}

\* the sandbox attribute of the iframe each preview component renders
sandbox(host) ==
  CASE host = "ComponentPreview.tsx" ->
         {"allow-scripts", "allow-same-origin", "allow-forms", "allow-popups", "allow-modals"}
    [] host = "part_008" ->
         {"allow-scripts", "allow-same-origin", "allow-forms", "allow-popups", "allow-modals"}
    [] host = "part_009" ->
         {"allow-scripts", "allow-same-origin"}

\* generatePreview() of ComponentPreview.tsx: previewContent, or a fixed
\* message when there is only code, becomes the new blob
generatePreviewContent(previewContent, code) ==
  IF previewContent = <<>> /\ CodeText(code) = <<>>
  THEN UNCHANGED <<pv, blobs, frame, frameMsg>>
  ELSE /\ Len(blobs) < MaxBlobs
       /\ LET htmlContent ==
                IF previewContent # <<>> THEN Html("previewContent", previewContent)
                ELSE Html("legacy", <<>>)
              revoked ==
                IF pv.currentBlobUrl # NoUrl
                THEN [blobs EXCEPT ![pv.currentBlobUrl].revoked = TRUE]
                ELSE blobs
              url == Len(blobs) + 1
          IN  /\ blobs' = Append(revoked, [html |-> htmlContent, revoked |-> FALSE])
              /\ pv' = [pv EXCEPT !.loading = FALSE, !.error = None,
                                  !.currentBlobUrl = url, !.previewUrl = url,
                                  !.previewContent = previewContent]
       /\ UNCHANGED <<frame, frameMsg>>

\* the component is rendered with (new) props and the effect that depends on
\* them runs: part_008 regenerates unless the code is blank
SetProps ==
  \E code \in PreviewCodes, previewContent \in PreviewContents :
    /\ pv.mounted
    /\ src' = code
    /\ IF pv.host = "part_008"
       THEN IF IsBlank(CodeText(code))
            THEN UNCHANGED <<pv, blobs, frame, frameMsg>>
            ELSE generatePreviewFor(code)
       ELSE generatePreviewContent(previewContent, code)

\* the refresh button
HandleRefresh ==
  /\ pv.mounted
  /\ IF pv.host = "part_008"
     THEN generatePreviewFor(src)
     ELSE generatePreviewContent(pv.previewContent, src)
  /\ UNCHANGED src

\* the cleanup of the effect with no dependencies
Unmount ==
  /\ pv.mounted
  /\ blobs' = IF pv.currentBlobUrl # NoUrl
              THEN [blobs EXCEPT ![pv.currentBlobUrl].revoked = TRUE]
              ELSE blobs
  /\ pv' = [pv EXCEPT !.mounted = FALSE]
  /\ UNCHANGED <<src, frame, frameMsg>>

InitMount ==
  /\ now = 1
  /\ EntityIdle
  /\ ValIdle
  /\ SvcIdle
  /\ response = [route |-> "none"]
  /\ \E host \in BlobHosts :
       pv = [loading |-> FALSE, error |-> None, previewUrl |-> NoUrl, currentBlobUrl |-> NoUrl,
             host |-> host, mounted |-> TRUE, previewContent |-> <<>>]
  /\ blobs = <<>>
  /\ frame = NoHtml
  /\ frameMsg = "none"

NextMount ==
  \/ SetProps /\ UNCHANGED <<now, entityVars, svcVars, tsMorphThrows, out, response>>
  \/ HandleRefresh /\ UNCHANGED <<now, entityVars, svcVars, tsMorphThrows, out, response>>
  \/ Unmount /\ UNCHANGED <<now, entityVars, svcVars, tsMorphThrows, out, response>>
  \/ pv.mounted /\ IframeLoad /\ UNCHANGED <<now, entityVars, valVars, svcVars, response>>

SpecMount == InitMount /\ [][NextMount]_vars

Unrevoked == {u \in DOMAIN blobs : ~blobs[u].revoked}

\* C21: across any sequence of regenerations (new content or theme, manual
\* refresh) followed by unmount, the preview component holds at most one blob
\* URL that is not revoked, the one it currently shows, and after unmount it
\* holds none.
C21_OneLiveBlobUrl ==
  /\ Cardinality(Unrevoked) <= 1
  /\ Unrevoked \subseteq {pv.currentBlobUrl}
  /\ ~pv.mounted => Unrevoked = {}

C21_Witness ==
  /\ ~pv.mounted
  /\ Len(blobs) = MaxBlobs
  /\ \A u \in DOMAIN blobs : blobs[u].revoked

\* C22: every preview frame is created with a sandbox that grants script
\* execution and same-origin access and nothing else: no popups, no
\* top-level navigation, no forms, no modals.
C22_SandboxScriptsAndOriginOnly ==
  pv.previewUrl # NoUrl => sandbox(pv.host) \subseteq {"allow-scripts", "allow-same-origin"}


\* ------------------------------------------------ TemplateEngine (part_004)

ComponentTypes ==
  {"MUITable", "MUIButton", "MUIForm", "MUIDialog", "MUICard", "MUITabs", "MUIList", "MUIChip",
   "MUIAvatar", "MUIBadge", "MUITooltip", "MUIMenu", "MUIDrawer", "MUIAppBar",
   "MUIBottomNavigation", "MUIBreadcrumbs"}

\* JavaScript values, each with its type
Undefined == [t |-> "undefined", v |-> "undefined"]
Str(s) == [t |-> "string", v |-> s]
Num(n) == [t |-> "number", v |-> n]
Bool(b) == [t |-> "boolean", v |-> b]
Arr(a) == [t |-> "array", v |-> a]
Obj(o) == [t |-> "object", v |-> o]

Truthy(x) ==
  CASE x.t = "undefined" -> FALSE
    [] x.t = "boolean" -> x.v
    [] x.t = "number" -> x.v # 0
    [] x.t = "string" -> x.v # ""
    [] OTHER -> TRUE

\* String(value), for the numbers the contexts hold
String(x) ==
  CASE x.t = "string" -> x.v
    [] x.t = "number" -> IF x.v = 0 THEN "0"
                         ELSE <<"1", "2", "3", "4", "5", "6", "7", "8", "9", "10">>[x.v]
    [] x.t = "boolean" -> IF x.v THEN "true" ELSE "false"
    [] x.t = "undefined" -> "undefined"
    [] x.t = "array" -> "[array]"
    [] OTHER -> "[object Object]"

\* a template is a sequence of literal text and {{...}} directives
Text(s) == [k |-> "text", s |-> s]
Var(name) == [k |-> "var", s |-> name]
If(condition) == [k |-> "if", s |-> condition]
EndIf == [k |-> "endif", s |-> ""]
Each(arrayName) == [k |-> "each", s |-> arrayName]
EndEach == [k |-> "endeach", s |-> ""]
NL == Text("\n")

\* the part every registered template has: the props interface and the
\* destructured parameters with their defaults
PropsSections ==
  << Text("interface "), Var("componentName"), Text("Props {"), NL,
     Each("props"), NL,
     Var("name"), Text("{{#unless required}}?{{/unless}}: "), Var("type"), Text(";"), NL,
     EndEach, NL,
     Text("}"), NL, NL,
     Text("const "), Var("componentName"), Text(": React.FC = ({"), NL,
     Each("props"), NL,
     Var("name"), If("defaultValue"), Text(" = "), Var("defaultValue"), EndIf, Text(","), NL,
     EndEach, NL,
     Text("}) => {"), NL >>

Template(imports, flag, extraImport) ==
  <<NL, Text(imports), NL, If(flag), Text(extraImport), NL, EndIf, NL>>
    \o PropsSections
    \o <<Text("export default "), Var("componentName"), Text(";"), NL>>

\* initializeTemplates(): the map the constructor fills
templates ==
  [ MUITable |-> Template("import { Table } from '@mui/material';", "hasActions", "IconButton"),
    MUIButton |-> Template("import { Button } from '@mui/material';", "hasIcon", "SvgIcon"),
    MUIForm |-> Template("import { TextField } from '@mui/material';", "hasSelect", "Select"),
    MUIDialog |-> Template("import { Dialog } from '@mui/material';", "hasTextField", "TextField"),
    MUICard |-> Template("import { Card } from '@mui/material';", "hasAvatar", "Avatar") ]

\* current && current[key] !== undefined ? current[key] : undefined, for a
\* path of one key
getNestedValue(obj, key) ==
  IF obj.t = "object" /\ key \in DOMAIN obj.v THEN obj.v[key] ELSE Undefined

\* the first index after from whose directive is kind, 0 when there is none
FirstOf(ts, kind, from) ==
  LET S == {j \in DOMAIN ts : j > from /\ ts[j].k = kind}
  IN  IF S = {} THEN 0 ELSE SetMin(S)

\* /\{\{#if\s+(\w+)\}\}([\s\S]*?)\{\{\/if\}\}/g: each {{#if}} with the first
\* {{/if}} after it; the condition is read from the context processTemplate
\* was given
RECURSIVE processConditionals(_, _)
processConditionals(template, context) ==
  IF template = <<>> THEN <<>>
  ELSE LET close == FirstOf(template, "endif", 1)
       IN  IF Head(template).k = "if" /\ close # 0
           THEN (IF Truthy(getNestedValue(context, Head(template).s))
                 THEN SubSeq(template, 2, close - 1) ELSE <<>>)
                \o processConditionals(SubSeq(template, close + 1, Len(template)), context)
           ELSE <<Head(template)>> \o processConditionals(Tail(template), context)

\* processConditionals() that reads the condition from no context at all
RECURSIVE processConditionals_never(_, _)
processConditionals_never(template, context) ==
  IF template = <<>> THEN <<>>
  ELSE LET close == FirstOf(template, "endif", 1)
       IN  IF Head(template).k = "if" /\ close # 0
           THEN processConditionals_never(SubSeq(template, close + 1, Len(template)), context)
           ELSE <<Head(template)>> \o processConditionals_never(Tail(template), context)

\* one item of an {{#each}}: {{this}}, {{@index}}, then {{key}} for each key
\* of an object item
ProcessItem(itemTemplate, item, index) ==
  [i \in DOMAIN itemTemplate |->
     LET tok == itemTemplate[i]
     IN  IF tok.k = "this" THEN Text(String(item))
         ELSE IF tok.k = "index" THEN Text(String(Num(index)))
         ELSE IF tok.k = "var" /\ item.t = "object" /\ tok.s \in DOMAIN item.v
              THEN Text(String(item.v[tok.s]))
         ELSE tok]

RECURSIVE processLoops(_, _)
processLoops(template, context) ==
  IF template = <<>> THEN <<>>
  ELSE LET close == FirstOf(template, "endeach", 1)
       IN  IF Head(template).k = "each" /\ close # 0
           THEN LET array == getNestedValue(context, Head(template).s)
                    itemTemplate == SubSeq(template, 2, close - 1)
                IN  (IF array.t # "array" THEN <<>>
                     ELSE Flatten([n \in DOMAIN array.v |->
                                     ProcessItem(itemTemplate, array.v[n], n - 1)]))
                    \o processLoops(SubSeq(template, close + 1, Len(template)), context)
           ELSE <<Head(template)>> \o processLoops(Tail(template), context)

\* {{variable}} becomes the context's value, and stays as written when the
\* context has none
processVariables(template, context) ==
  [i \in DOMAIN template |->
     LET tok == template[i]
         value == getNestedValue(context, tok.s)
     IN  IF tok.k = "var" /\ value.t # "undefined" THEN Text(String(value)) ELSE tok]

\* runs of three or more line ends become two, and the ends are trimmed
RECURSIVE CollapseLines(_)
CollapseLines(ts) ==
  IF Len(ts) < 3 THEN ts
  ELSE IF ts[1] = NL /\ ts[2] = NL /\ ts[3] = NL THEN CollapseLines(Tail(ts))
  ELSE <<Head(ts)>> \o CollapseLines(Tail(ts))

RECURSIVE TrimLines(_)
TrimLines(ts) ==
  IF ts = <<>> THEN <<>>
  ELSE IF Head(ts) = NL THEN TrimLines(Tail(ts))
  ELSE IF ts[Len(ts)] = NL THEN TrimLines(SubSeq(ts, 1, Len(ts) - 1))
  ELSE ts

cleanupTemplate(template) == TrimLines(CollapseLines(template))

processTemplate(template, context) ==
  LET named == [i \in DOMAIN template |->
                  IF template[i] = Var("componentName")
                  THEN Text(String(getNestedValue(context, "componentName")))
                  ELSE template[i]]
  IN  cleanupTemplate(processVariables(processLoops(processConditionals(named, context), context), context))

getAvailableTemplates == DOMAIN templates

\* validateTemplate() that accepts every component type
validateTemplate_always(componentType) == TRUE

validateTemplate(componentType) == componentType \in DOMAIN templates

generateFromTemplate(componentType, context) ==
  IF componentType \notin DOMAIN templates \/ templates[componentType] = <<>>
  THEN [threw |-> TRUE, error |-> "Template not found for component type", source |-> <<>>]
  ELSE [threw |-> FALSE, error |-> "none", source |-> processTemplate(templates[componentType], context)]


\* ------------------- SpecTemplate: calls of the template engine's methods

\* a context has at most MaxProps props
MaxProps == 2

\* props as prepareTableContext() builds them: with and without a default
PropItems ==
  { Obj([name |-> Str("rows"), type |-> Str("any[]"), required |-> Bool(TRUE)]),
    Obj([name |-> Str("page"), type |-> Str("number"), required |-> Bool(FALSE),
         defaultValue |-> Num(0)]),
    Obj([name |-> Str("rowsPerPage"), type |-> Str("number"), required |-> Bool(FALSE),
         defaultValue |-> Num(10)]) }

\* what a context holds besides componentName and props
TopLevels ==
  { [hasActions |-> Bool(FALSE)],
    [hasActions |-> Bool(TRUE), defaultValue |-> Num(7)] }

\* the contexts of the prepare helpers, and the one the generation service
\* passes, which has no props
Contexts ==
  { Obj([componentName |-> Str("DataTable"), props |-> Arr(props)] @@ top) :
      props \in UNION {[1..n -> PropItems] : n \in 0..MaxProps}, top \in TopLevels }
  \cup { Obj([componentName |-> Str("DataTable"), description |-> Str("a table")]) }

GenerateFromTemplate ==
  \E componentType \in ComponentTypes, context \in Contexts :
    /\ out' = [op |-> "generateFromTemplate", componentType |-> componentType,
               context |-> context, returned |-> generateFromTemplate(componentType, context)]
    /\ UNCHANGED <<src, tsMorphThrows>>

ValidateTemplate ==
  \E componentType \in ComponentTypes :
    /\ out' = [op |-> "validateTemplate", componentType |-> componentType,
               valid |-> validateTemplate(componentType)]
    /\ UNCHANGED <<src, tsMorphThrows>>

InitTemplate ==
  /\ now = 1
  /\ EntityIdle
  /\ ValIdle
  /\ PreviewIdle
  /\ SvcIdle

NextTemplate ==
  \/ GenerateFromTemplate /\ UNCHANGED <<now, entityVars, previewVars, svcVars>>
  \/ ValidateTemplate /\ UNCHANGED <<now, entityVars, previewVars, svcVars>>

SpecTemplate == InitTemplate /\ [][NextTemplate]_vars

\* C23: generateFromTemplate(category, context) fails with "Template not
\* found" exactly when the category has no registered template, and
\* validateTemplate(category) is true exactly when the category is one of
\* getAvailableTemplates(); for each of those generateFromTemplate returns
\* source.
C23_NotFoundIffUnregistered ==
  /\ out.op = "generateFromTemplate" =>
       /\ out.returned.threw <=> out.componentType \notin getAvailableTemplates
       /\ out.returned.threw => out.returned.error = "Template not found for component type"
       /\ ~out.returned.threw => out.returned.source # <<>>
  /\ out.op = "validateTemplate" =>
       (out.valid <=> out.componentType \in getAvailableTemplates)

C23_Witness ==
  /\ out.op = "generateFromTemplate"
  /\ out.componentType = "MUICard"
  /\ validateTemplate(out.componentType)
  /\ ~out.returned.threw
  /\ Len(out.returned.source) > 0

\* the props of a context that have a default a condition accepts
WithDefault(context) ==
  {n \in DOMAIN context.v.props.v :
     Truthy(getNestedValue(context.v.props.v[n], "defaultValue"))}

\* C30: inside {{#each list}} a directive that names a property of the
\* current item, {{#if prop}} included, is resolved against the current item,
\* whatever the top-level context holds under the same name: a prop gets its
\* " = default" exactly when the prop itself has a default.
C30_ConditionalUsesItem ==
  (/\ out.op = "generateFromTemplate"
   /\ ~out.returned.threw
   /\ "props" \in DOMAIN out.context.v) =>
    Cardinality({i \in DOMAIN out.returned.source : out.returned.source[i] = Text(" = ")})
      = Cardinality(WithDefault(out.context))


\* ------- SpecPoll: the client hook polls the job that generateComponent made

\* useComponentGeneration has its job id and awaits the first fetch of pollJob
Poll_start ==
  \E s \in FreeSlots :
    /\ s = SetMin(FreeSlots)
    /\ Len(jobRepo) >= 1
    /\ \A o \in DOMAIN tasks : tasks[o] = NoTask \/ tasks[o].kind # "useComponentGeneration"
    /\ tasks' = [tasks EXCEPT ![s] = Task("useComponentGeneration", "pollJob", jobRepo[1].id)]
    /\ UNCHANGED <<now, jobRepo, components, llm, lastGen>>

\* one round of pollJob: the status is fetched; 'COMPLETED' with a component
\* returns it, 'FAILED' throws, anything else waits two seconds
Poll_fetch(s) ==
  /\ At(s, "useComponentGeneration", "pollJob")
  /\ LET jobData == JobStatusGET(tasks[s].jobId)
         t == tasks[s]
     IN  tasks' = [tasks EXCEPT ![s] =
           IF jobData.status # 200
           THEN [t EXCEPT !.pc = "done", !.err = "Job status check failed"]
           ELSE IF jobData.job.status = "COMPLETED" /\ jobData.component # NoStoredComponent
           THEN [t EXCEPT !.pc = "done", !.saved = jobData.component.id]
           ELSE IF jobData.job.status = "FAILED"
           THEN [t EXCEPT !.pc = "done", !.err = "Component generation failed"]
           ELSE [t EXCEPT !.pc = "setTimeout"]]
  /\ UNCHANGED <<now, jobRepo, components, llm, lastGen>>

\* the two seconds are over: pollJob calls itself
Poll_setTimeout(s) ==
  /\ At(s, "useComponentGeneration", "setTimeout")
  /\ tasks' = [tasks EXCEPT ![s].pc = "pollJob"]
  /\ UNCHANGED <<now, jobRepo, components, llm, lastGen>>

PollStep(s) == Poll_fetch(s) \/ Poll_setTimeout(s)

NextPoll ==
  \/ generateComponent /\ UNCHANGED <<entityVars, valVars, previewVars>>
  \/ \E s \in DOMAIN tasks : ProcessStep(s) /\ UNCHANGED <<entityVars, valVars, previewVars>>
  \/ Poll_start /\ UNCHANGED <<entityVars, valVars, previewVars>>
  \/ \E s \in DOMAIN tasks : Poll_fetch(s) /\ UNCHANGED <<entityVars, valVars, previewVars>>
  \/ \E s \in DOMAIN tasks : Poll_setTimeout(s) /\ UNCHANGED <<entityVars, valVars, previewVars>>

\* every fetch and every provider or repository call returns, every timer fires
SpecPoll ==
  /\ InitSvc
  /\ [][NextPoll]_vars
  /\ \A s \in 1..MaxTasks :
       /\ WF_vars(ProcessStep(s) /\ UNCHANGED <<entityVars, valVars, previewVars>>)
       /\ WF_vars(PollStep(s) /\ UNCHANGED <<entityVars, valVars, previewVars>>)

Polling(s) ==
  /\ tasks[s] # NoTask
  /\ tasks[s].kind = "useComponentGeneration"
  /\ tasks[s].pc \in {"pollJob", "setTimeout"}

\* C24: a client that polls the status of the job it created eventually stops
\* polling: once the job is in a terminal state (SUCCESS, PARTIAL, FAILED,
\* TIMEOUT, RATE_LIMITED) the polling loop ends, with the component on
\* success and with an error otherwise.
C24_PollingEnds ==
  \A s \in 1..MaxTasks :
    (Polling(s) /\ jobRepo[1].status \in Terminal) ~>
      (/\ At(s, "useComponentGeneration", "done")
       /\ (tasks[s].saved # None \/ tasks[s].err # "none"))

====
